---------------------------- MODULE Spec2Model ----------------------------
(***************************************************************************)
(* Replay/execution engine of the trading-bot backtester.                  *)
(*                                                                         *)
(* Four replay drivers are modelled, selected by the variable `driver`:    *)
(*   "run"               BacktestRunner.run        (backtestRunner.js)      *)
(*   "runBacktest"       runBacktest, first revision (backtest.js 12-109)  *)
(*   "runBacktestRT"     runBacktest, Real-Time Simulation                 *)
(*                                               (backtest.js 132-233)     *)
(*   "runBacktestBudget" runBacktest with warm-up and call budget          *)
(*                                               (unnamed/part_008)        *)
(* A fifth value, "ledger", drives BacktestExecutionHandler directly       *)
(* through its public methods (specification SpecLedger).                  *)
(* Further values of `driver` select components called on their own:       *)
(*   "generateSignal"    StrategyEngine.generateSignal, local indicators   *)
(*                       (strategyEngine.js 37-70), specification          *)
(*                       SpecEngine                                        *)
(*   "riskManager"       RiskManager.calculateTradeParameters              *)
(*                       (riskManager.js and unnamed/part_012) and         *)
(*                       _calculateATR, specification SpecRisk             *)
(* SpecRun is BacktestRunner.run alone, with fairness of its steps.        *)
(*                                                                         *)
(* Units.  Prices are integers counting 1/PriceScale of a quote unit.      *)
(* Sizes count 1/10^4 of a contract (toFixed(4)).  Balances and pnl count  *)
(* 1/(PriceScale*10^4) of a quote unit, so pnl = priceDiff * size exactly. *)
(* JavaScript null/undefined is the empty sequence <<>>, a present value v *)
(* is <<v>>.  Time is counted in the unit of MIN_SECONDS_BETWEEN_CALLS;    *)
(* synchronous code takes no time, time passes only at an await.           *)
(***************************************************************************)
EXTENDS Integers, Sequences, FiniteSets

\* ------------------------------------------------------------------ bounds
MaxBars == 3
MaxCalls == 2
WARMUP_PERIOD == 1
MIN_SECONDS_BETWEEN_CALLS == 2
MaxLatency == 2
MaxLedgerTrades == 2
PriceScale == 2

\* ------------------------------------------------------- program constants
INITIAL_BALANCE == 10000
MINIMUM_CONFIDENCE_THRESHOLD == 70
leverage == 10
marginBufferPct == 1
takeProfitMultiplier == 3
SizeDecimals == 10000

\* ------------------------------------------------------------------ helpers
Null == << >>
Some(v) == << v >>

Min(a, b) == IF a <= b THEN a ELSE b

\* Price of p quote units in model units.
P(p) == p * PriceScale

\* Balance of b quote units in model units.
BalanceUnits(b) == b * PriceScale * SizeDecimals

\* round(n / d) with ties towards +infinity, d > 0 (Math.round, toFixed on
\* positive values).
RoundHalfUp(n, d) == (2 * n + d) \div (2 * d)

\* Variant: the quotient is truncated.
RoundMulDiv_truncated(a, m, d) == (a \div d) * m + ((a % d) * m) \div d

\* round(a * m / d) computed without forming a * m.
RoundMulDiv(a, m, d) == (a \div d) * m + RoundHalfUp((a % d) * m, d)

\* Math.round on a price held in 1/PriceScale units.
MathRound(x) == RoundHalfUp(x, PriceScale) * PriceScale

\* A JavaScript value used as a condition: null and 0 are falsy.
Truthy(v) == v # Null /\ v[1] # 0

\* Outcome of a call: a returned value or a thrown exception (a rejected
\* promise for an async function).
Returned(v) == [returned |-> v]
Thrown == [thrown |-> TRUE]

\* -------------------------------------------------------------- input sets
Drivers == {"run", "runBacktest", "runBacktestRT", "runBacktestBudget"}
BacktestDrivers == Drivers \ {"run"}

Signals == {"HOLD", "LONG", "SHORT"}

\* Bar shapes the series is drawn from (open is never read by the engine).
BarShapes ==
    { [high |-> P(100), low |-> P(100), close |-> P(100)],
      [high |-> P(104), low |-> P(96),  close |-> P(100)],
      [high |-> P(103), low |-> P(100), close |-> P(102)] }

\* Opinions returned by StrategyEngine.generateSignal to runBacktest.
\* Distances: 0 (rejected by the risk manager), one model unit (below the
\* rounding tick) and one quote unit.
Confidences == {MINIMUM_CONFIDENCE_THRESHOLD - 1, MINIMUM_CONFIDENCE_THRESHOLD}
Distances == {0, 1, P(1)}
Opinions ==
    [signal : Signals, confidence : Confidences,
     stop_loss_distance_in_usd : Distances]

\* Trade plans returned by StrategyEngine.generateSignal (Project Chimera)
\* to BacktestRunner.run: the parsed model output, returned unvalidated, so
\* the signal may lie outside Signals and any signal may come with any levels.
PlanSignals == Signals \cup {"BUY"}
PlanLevels ==
    { [entry_price |-> P(100), stop_loss_price |-> P(99),
       take_profit_price |-> P(103)],
      [entry_price |-> P(102), stop_loss_price |-> P(103),
       take_profit_price |-> P(100)] }
TradePlans ==
    { [signal |-> s, confidence |-> c, entry_price |-> l.entry_price,
       stop_loss_price |-> l.stop_loss_price,
       take_profit_price |-> l.take_profit_price] :
      s \in PlanSignals, c \in Confidences, l \in PlanLevels }

Latencies == 0 .. MaxLatency

\* Configurations.  runBacktest revisions fix in the source what
\* BacktestRunner takes from config.  The call budget is drawn from
\* 0 .. MaxCalls; the warm-up period and the call spacing are the scaled-down
\* WARMUP_PERIOD and MIN_SECONDS_BETWEEN_CALLS; a field the driver never
\* reads is 0.
HasBudget(d) == d \in {"run", "runBacktestBudget"}
\* Variant: no driver has a warm-up check.
HasWarmup_never(d) == FALSE

HasWarmup(d) == d \in {"run", "runBacktestBudget"}
HasRateLimit(d) == d \in {"run", "runBacktestRT", "runBacktestBudget"}

Configs(d) ==
    [MAX_API_CALLS : IF HasBudget(d) THEN 0 .. MaxCalls ELSE {0},
     WARMUP_PERIOD : IF HasWarmup(d) THEN {WARMUP_PERIOD} ELSE {0},
     MIN_SECONDS_BETWEEN_CALLS :
         IF HasRateLimit(d) THEN {MIN_SECONDS_BETWEEN_CALLS} ELSE {0}]

\* ------------------------------------------------------------------- state
VARIABLES
    driver,        \* which replay driver this run executes
    cfg,           \* its configuration
    allCandles,    \* the loaded bar series (allOhlcData / allCandles)
    pc,            \* position of the async driver function
    i,             \* loop index of BacktestRunner.run
    currentIndex,  \* BacktestDataHandler.currentIndex
    trades,        \* BacktestExecutionHandler.trades
    balance,       \* simulatedAccount.balance / executionHandler.balance
    apiCallCount,  \* apiCallCount
    elapsed,       \* Date.now() - loopStartTime
    delayNeeded,   \* delayNeededMs of the pending setTimeout
    sinceCall,     \* time since the last generateSignal invocation (capped)
    lastGap,       \* gap measured at the latest generateSignal invocation
    invocations,   \* number of generateSignal invocations so far
    allHold,       \* every opinion returned so far had signal HOLD
    call,          \* arguments of the function under direct call, or Null
    result         \* what that call returned or threw, or Null

vars == << driver, cfg, allCandles, pc, i, currentIndex, trades, balance,
           apiCallCount, elapsed, delayNeeded, sinceCall, lastGap,
           invocations, allHold, call, result >>

\* ------------------------------------------------- BacktestExecutionHandler
\* getOpenTrade: trades.find(t => t.status === 'open'), as an index or Null.
OpenIndices(ts) == { k \in 1 .. Len(ts) : ts[k].status = "open" }

\* Variant: the find predicate matches every trade.
getOpenTrade_anyStatus(ts) == IF ts = << >> THEN Null ELSE Some(1)

\* Variant: the find predicate never matches.
getOpenTrade_neverFinds(ts) == Null

getOpenTrade(ts) ==
    IF OpenIndices(ts) = {} THEN Null
    ELSE Some(CHOOSE k \in OpenIndices(ts) : \A j \in OpenIndices(ts) : k <= j)

\* Variant: the trade is stamped with the time elapsed in the current pass.
placeOrder_wallClock(ts, signal, params, entryPrice, entryTime) ==
    Append(ts, [entryTime |-> Some(elapsed), entryPrice |-> entryPrice,
                signal |-> signal, size |-> params.size,
                stopLoss |-> params.stopLoss,
                takeProfit |-> params.takeProfit,
                status |-> "open", exitTime |-> Null, exitPrice |-> Null,
                pnl |-> 0])

\* placeOrder({signal, params, entryPrice, entryTime}): pushes an open trade.
placeOrder(ts, signal, params, entryPrice, entryTime) ==
    Append(ts, [entryTime |-> entryTime, entryPrice |-> entryPrice,
                signal |-> signal, size |-> params.size,
                stopLoss |-> params.stopLoss,
                takeProfit |-> params.takeProfit,
                status |-> "open", exitTime |-> Null, exitPrice |-> Null,
                pnl |-> 0])

\* ------------------------------------------------------------- RiskManager
\* Variant: no balance test, the size is computed from INITIAL_BALANCE.
calculateTradeParameters_initialEquity(bal, lastPrice, tradingSignal) ==
    LET signal == tradingSignal.signal
        dist == tradingSignal.stop_loss_distance_in_usd
        size == RoundMulDiv(BalanceUnits(INITIAL_BALANCE),
                            leverage * (100 - marginBufferPct),
                            100 * lastPrice)
    IN  IF signal = "HOLD" \/ dist <= 0 THEN Null
        ELSE IF lastPrice <= 0 THEN Null
        ELSE Some([size |-> size,
                   stopLoss |-> MathRound(IF signal = "LONG"
                                          THEN lastPrice - dist
                                          ELSE lastPrice + dist),
                   takeProfit |-> MathRound(
                       IF signal = "LONG"
                       THEN lastPrice + dist * takeProfitMultiplier
                       ELSE lastPrice - dist * takeProfitMultiplier)])

\* calculateTradeParameters(marketData, tradingSignal), leverage-based sizing
\* with the stop distance supplied by the oracle.  Null or Some(params).
calculateTradeParameters(bal, lastPrice, tradingSignal) ==
    LET signal == tradingSignal.signal
        dist == tradingSignal.stop_loss_distance_in_usd
        size == RoundMulDiv(bal, leverage * (100 - marginBufferPct),
                            100 * lastPrice)
        rawStopLossPrice ==
            IF signal = "LONG" THEN lastPrice - dist ELSE lastPrice + dist
        rawTakeProfitPrice ==
            IF signal = "LONG" THEN lastPrice + dist * takeProfitMultiplier
            ELSE lastPrice - dist * takeProfitMultiplier
    IN  IF signal = "HOLD" \/ dist <= 0 THEN Null
        ELSE IF bal <= 0 THEN Null
        ELSE IF lastPrice <= 0 THEN Null
        ELSE Some([size |-> size,
                   stopLoss |-> MathRound(rawStopLossPrice),
                   takeProfit |-> MathRound(rawTakeProfitPrice)])

\* ------------------------------------------------------------ exit trigger
\* Variant: take-profit is tested first.
ExitPrice_takeProfitFirst(candle, t) ==
    IF t.signal = "LONG" THEN
        IF candle.high >= t.takeProfit THEN Some(t.takeProfit)
        ELSE IF candle.low <= t.stopLoss THEN Some(t.stopLoss)
        ELSE Null
    ELSE IF t.signal = "SHORT" THEN
        IF candle.low <= t.takeProfit THEN Some(t.takeProfit)
        ELSE IF candle.high >= t.stopLoss THEN Some(t.stopLoss)
        ELSE Null
    ELSE Null

\* Variant: only the stop-loss is tested.
ExitPrice_stopOnly(candle, t) ==
    IF t.signal = "LONG" /\ candle.low <= t.stopLoss THEN Some(t.stopLoss)
    ELSE IF t.signal = "SHORT" /\ candle.high >= t.stopLoss
    THEN Some(t.stopLoss)
    ELSE Null

\* The exit price selected for an open trade on a candle: stop-loss is
\* tested first, take-profit only when the stop-loss did not trigger.
ExitPrice(candle, t) ==
    IF t.signal = "LONG" THEN
        IF candle.low <= t.stopLoss THEN Some(t.stopLoss)
        ELSE IF candle.high >= t.takeProfit THEN Some(t.takeProfit)
        ELSE Null
    ELSE IF t.signal = "SHORT" THEN
        IF candle.high >= t.stopLoss THEN Some(t.stopLoss)
        ELSE IF candle.low <= t.takeProfit THEN Some(t.takeProfit)
        ELSE Null
    ELSE Null

\* Variant: the direction factor is dropped.
Pnl_noDirection(t, exitPrice) == (exitPrice - t.entryPrice) * t.size

\* pnl of closing trade t at exitPrice.
Pnl(t, exitPrice) ==
    (exitPrice - t.entryPrice) * t.size * (IF t.signal = "LONG" THEN 1 ELSE -1)

\* Variant: the trade is recorded as filled at the candle's close.
ClosedTrade_atClose(t, exitPrice, candle) ==
    [t EXCEPT !.status = "closed", !.exitPrice = Some(candle.close),
              !.exitTime = Some(candle.timestamp),
              !.pnl = Pnl(t, exitPrice)]

\* The trade as closed at exitPrice on candle.
ClosedTrade(t, exitPrice, candle) ==
    [t EXCEPT !.status = "closed", !.exitPrice = Some(exitPrice),
              !.exitTime = Some(candle.timestamp),
              !.pnl = Pnl(t, exitPrice)]

\* Trade log and balance after the exit check of one step.
AfterExitCheck(ts, bal, candle) ==
    LET open == getOpenTrade(ts)
        exitPrice == IF open = Null THEN Null
                     ELSE ExitPrice(candle, ts[open[1]])
    IN  IF open # Null /\ Truthy(exitPrice)
        THEN [trades |-> [ts EXCEPT ![open[1]] =
                              ClosedTrade(ts[open[1]], exitPrice[1], candle)],
              balance |-> bal + Pnl(ts[open[1]], exitPrice[1])]
        ELSE [trades |-> ts, balance |-> bal]

\* -------------------------------------------------------------------- time
\* Time d passes: the distance to the last invocation grows (capped at the
\* configured minimum, beyond which it is no longer compared).
Advance(since, d) ==
    IF since = Null THEN Null
    ELSE Some(Min(since[1] + d, cfg.MIN_SECONDS_BETWEEN_CALLS))


\* Bookkeeping of one generateSignal invocation made when `since` is the
\* time elapsed from the previous one.
Invoke(since) ==
    /\ lastGap' = since
    /\ sinceCall' = Some(0)
    /\ invocations' = invocations + 1

\* ------------------------------------------------------------ driver parts
\* allCandles[k] of the source (0-based).
Candle(k) == allCandles[k + 1]

\* Variant: off by one.
BudgetExhausted_offByOne(count, maxCalls) == count > maxCalls

\* if (apiCallCount >= MAX_API_CALLS) break;
BudgetExhausted(count, maxCalls) == count >= maxCalls

\* Variant: the HOLD test is dropped.
Qualifies_ignoresHold(opinion) ==
    opinion.confidence >= MINIMUM_CONFIDENCE_THRESHOLD

\* tradingSignal.signal !== 'HOLD' && tradingSignal.confidence >= threshold
Qualifies(opinion) ==
    /\ opinion.signal # "HOLD"
    /\ opinion.confidence >= MINIMUM_CONFIDENCE_THRESHOLD

\* Variant: the processing time is not subtracted.
DelayNeeded_additive(processingTime) == cfg.MIN_SECONDS_BETWEEN_CALLS

\* delayNeededMs = MIN_SECONDS_BETWEEN_CALLS * 1000 - processingTimeMs
DelayNeeded(processingTime) == cfg.MIN_SECONDS_BETWEEN_CALLS - processingTime

\* RiskManager.calculatePositionSize(balance, tradePlan) of BacktestRunner's
\* risk manager: leverage-based notional sizing at the plan's entry price,
\* nothing when equity, price or size is not positive.
calculatePositionSize(bal, tradePlan) ==
    LET size == RoundMulDiv(bal, leverage * (100 - marginBufferPct),
                            100 * tradePlan.entry_price)
    IN  IF bal <= 0 \/ tradePlan.entry_price <= 0 \/ size <= 0 THEN Null
        ELSE Some(size)

\* BacktestExecutionHandler.closeTrade(openTrade, exitPrice, timestamp) of
\* BacktestRunner's execution handler: realizes the pnl on the handler's
\* balance and marks the trade closed.
closeTrade(ts, bal, k, exitPrice, candle) ==
    [trades |-> [ts EXCEPT ![k] = ClosedTrade(ts[k], exitPrice, candle)],
     balance |-> bal + Pnl(ts[k], exitPrice)]

\* Variant: the exit check does nothing.
_checkTradeExit_skipped(ts, bal, candle, k) == [trades |-> ts, balance |-> bal]

\* BacktestRunner._checkTradeExit(currentCandle, openTrade)
_checkTradeExit(ts, bal, candle, k) ==
    LET exitPrice == ExitPrice(candle, ts[k])
    IN  IF Truthy(exitPrice) THEN closeTrade(ts, bal, k, exitPrice[1], candle)
        ELSE [trades |-> ts, balance |-> bal]

\* ------------------------------------------------------------------ Init
Init ==
    /\ driver \in Drivers
    /\ cfg \in Configs(driver)
    /\ \E n \in 0 .. MaxBars : \E f \in [1 .. n -> BarShapes] :
          allCandles = [k \in 1 .. n |->
                          [timestamp |-> k, high |-> f[k].high,
                           low |-> f[k].low, close |-> f[k].close]]
    /\ pc = "start"
    /\ i = 0
    /\ currentIndex = 0
    /\ trades = << >>
    /\ balance = BalanceUnits(INITIAL_BALANCE)
    /\ apiCallCount = 0
    /\ elapsed = 0
    /\ delayNeeded = 0
    /\ sinceCall = Null
    /\ lastGap = Null
    /\ invocations = 0
    /\ allHold = TRUE
    /\ call = Null
    /\ result = Null

\* ------------------------------------------------------------------ setup
\* BacktestRunner.run up to the loop: load, then the warm-up length check.
\* runBacktest (budgeted): the warm-up loop drains WARMUP_PERIOD bars from
\* the data handler and throws when the data runs out first.
\* runBacktest (first and real-time revision): straight into the loop.
Setup ==
    /\ pc = "start"
    /\ IF HasWarmup(driver) /\ Len(allCandles) < cfg.WARMUP_PERIOD
       THEN /\ pc' = "error"
            /\ currentIndex' = IF driver = "run" THEN 0 ELSE Len(allCandles)
            /\ i' = i
       ELSE /\ pc' = "loop"
            /\ i' = IF driver = "run" THEN cfg.WARMUP_PERIOD ELSE 0
            /\ currentIndex' = IF driver = "runBacktestBudget"
                               THEN cfg.WARMUP_PERIOD ELSE 0
    /\ UNCHANGED << call, result, driver, cfg, allCandles, trades, balance, apiCallCount,
                    elapsed, delayNeeded, sinceCall, lastGap, invocations,
                    allHold >>

\* ------------------------------------------------------- BacktestRunner.run
\* One pass of the for loop up to its first await (or to its end).
RunStep ==
    /\ driver = "run" /\ pc = "loop"
    /\ IF i >= Len(allCandles)
       THEN /\ pc' = "summary"
            /\ UNCHANGED << i, trades, balance, apiCallCount, elapsed >>
       ELSE LET openTrade == getOpenTrade(trades)
                after == IF openTrade # Null
                         THEN _checkTradeExit(trades, balance, Candle(i),
                                              openTrade[1])
                         ELSE [trades |-> trades, balance |-> balance]
            IN  /\ trades' = after.trades
                /\ balance' = after.balance
                /\ IF getOpenTrade(after.trades) = Null
                   THEN /\ elapsed' = 0
                        /\ i' = i
                        /\ IF BudgetExhausted(apiCallCount, cfg.MAX_API_CALLS)
                           THEN /\ pc' = "summary"
                                /\ apiCallCount' = apiCallCount
                           ELSE /\ pc' = "fetch"
                                /\ apiCallCount' = apiCallCount + 1
                   ELSE /\ i' = i + 1
                        /\ pc' = "loop"
                        /\ UNCHANGED << apiCallCount, elapsed >>
    /\ UNCHANGED << call, result, driver, cfg, allCandles, currentIndex, delayNeeded,
                    sinceCall, lastGap, invocations, allHold >>

\* await dataHandler.fetchRecentData(...) returns after d; generateSignal is
\* invoked.
RunFetchReturn(d) ==
    /\ driver = "run" /\ pc = "fetch"
    /\ elapsed' = elapsed + d
    /\ Invoke(Advance(sinceCall, d))
    /\ pc' = "oracle"
    /\ UNCHANGED << call, result, driver, cfg, allCandles, i, currentIndex, trades, balance,
                    apiCallCount, delayNeeded, allHold >>

\* await strategyEngine.generateSignal(marketData) returns tradePlan after d;
\* entry decision, then the rate-limit delay is computed.
RunOracleReturn(tradePlan, d) ==
    /\ driver = "run" /\ pc = "oracle"
    /\ LET positionSize == IF Qualifies(tradePlan)
                           THEN calculatePositionSize(balance, tradePlan)
                           ELSE Null
       IN  trades' =
             IF positionSize # Null /\ positionSize[1] > 0
             THEN placeOrder(trades, tradePlan.signal,
                             [size |-> positionSize[1],
                              stopLoss |-> tradePlan.stop_loss_price,
                              takeProfit |-> tradePlan.take_profit_price],
                             tradePlan.entry_price, Null)
             ELSE trades
    /\ allHold' = (allHold /\ tradePlan.signal = "HOLD")
    /\ sinceCall' = Advance(sinceCall, d)
    /\ IF DelayNeeded(elapsed + d) > 0
       THEN /\ pc' = "wait"
            /\ delayNeeded' = DelayNeeded(elapsed + d)
            /\ elapsed' = elapsed + d
            /\ i' = i
       ELSE /\ pc' = "loop"
            /\ delayNeeded' = 0
            /\ elapsed' = 0
            /\ i' = i + 1
    /\ UNCHANGED << call, result, driver, cfg, allCandles, currentIndex, balance,
                    apiCallCount, lastGap, invocations >>

\* ------------------------------------------------------------- runBacktest
\* One pass of the while loop up to its await (or to its end).
BacktestStep ==
    /\ driver # "run" /\ driver \in Drivers /\ pc = "loop"
    /\ IF currentIndex >= Len(allCandles)
       THEN /\ pc' = "summary"
            /\ UNCHANGED << currentIndex, trades, balance, apiCallCount,
                            elapsed, sinceCall, lastGap, invocations >>
       ELSE LET after == AfterExitCheck(trades, balance, Candle(currentIndex))
            IN  /\ currentIndex' = currentIndex + 1
                /\ trades' = after.trades
                /\ balance' = after.balance
                /\ elapsed' = 0
                /\ IF getOpenTrade(after.trades) # Null
                   THEN /\ pc' = "loop"
                        /\ UNCHANGED << apiCallCount, sinceCall, lastGap,
                                        invocations >>
                   ELSE IF HasBudget(driver)
                           /\ BudgetExhausted(apiCallCount, cfg.MAX_API_CALLS)
                   THEN /\ pc' = "summary"
                        /\ UNCHANGED << apiCallCount, sinceCall, lastGap,
                                        invocations >>
                   ELSE /\ pc' = "oracle"
                        /\ apiCallCount' = IF driver = "runBacktest"
                                           THEN apiCallCount
                                           ELSE apiCallCount + 1
                        /\ Invoke(sinceCall)
    /\ UNCHANGED << call, result, driver, cfg, allCandles, i, delayNeeded, allHold >>

\* await strategyEngine.generateSignal(marketData) returns tradingSignal
\* after d; entry decision, then (rate-limited revisions) the delay.
BacktestOracleReturn(tradingSignal, d) ==
    /\ driver # "run" /\ driver \in Drivers /\ pc = "oracle"
    /\ LET currentCandle == Candle(currentIndex - 1)
           tradeParams == IF Qualifies(tradingSignal)
                          THEN calculateTradeParameters(balance,
                                   currentCandle.close, tradingSignal)
                          ELSE Null
       IN  trades' =
             IF tradeParams # Null /\ tradeParams[1].size > 0
             THEN placeOrder(trades, tradingSignal.signal, tradeParams[1],
                             currentCandle.close,
                             Some(currentCandle.timestamp))
             ELSE trades
    /\ allHold' = (allHold /\ tradingSignal.signal = "HOLD")
    /\ sinceCall' = Advance(sinceCall, d)
    /\ IF HasRateLimit(driver) /\ DelayNeeded(elapsed + d) > 0
       THEN /\ pc' = "wait"
            /\ delayNeeded' = DelayNeeded(elapsed + d)
            /\ elapsed' = elapsed + d
       ELSE /\ pc' = "loop"
            /\ delayNeeded' = 0
            /\ elapsed' = 0
    /\ UNCHANGED << call, result, driver, cfg, allCandles, i, currentIndex, balance,
                    apiCallCount, lastGap, invocations >>

\* Variant: the exception propagates to the caller.
ChimeraCatch_rethrows(r) == r

\* StrategyEngine.generateSignal (Project Chimera), catch block: any error of
\* the model call or of the parsing becomes { signal: 'HOLD' }.
ChimeraCatch(r) == IF r = Thrown THEN Returned([signal |-> "HOLD"]) ELSE r

\* await strategyEngine.generateSignal(marketData) settles after d, the model
\* call or the parsing having failed inside it.  run has no try block: an
\* exception leaving generateSignal ends run.
RunOracleFails(d) ==
    LET r == ChimeraCatch(Thrown)
    IN  IF r = Thrown
        THEN /\ driver = "run" /\ pc = "oracle"
             /\ pc' = "error"
             /\ UNCHANGED << call, result, driver, cfg, allCandles, i,
                             currentIndex, trades, balance, apiCallCount,
                             elapsed, delayNeeded, sinceCall, lastGap,
                             invocations, allHold >>
        ELSE RunOracleReturn(r.returned, d)

\* await new Promise(resolve => setTimeout(resolve, delayNeededMs)) returns.
WaitDone ==
    /\ pc = "wait"
    /\ sinceCall' = Advance(sinceCall, delayNeeded)
    /\ delayNeeded' = 0
    /\ elapsed' = 0
    /\ i' = IF driver = "run" THEN i + 1 ELSE i
    /\ pc' = "loop"
    /\ UNCHANGED << call, result, driver, cfg, allCandles, currentIndex, trades, balance,
                    apiCallCount, lastGap, invocations, allHold >>

\* The figures of the performance summary of runBacktest, computed over
\* executionHandler.trades; winRate is the quotient num / den in percent.
PerformanceSummary(ts) ==
    LET totalTrades == Len(ts)
        winningTrades == Cardinality({ k \in 1 .. Len(ts) : ts[k].pnl > 0 })
    IN  [totalTrades |-> totalTrades,
         winningTrades |-> winningTrades,
         losingTrades |-> totalTrades - winningTrades,
         winRate |-> IF totalTrades > 0
                     THEN [num |-> winningTrades * 100, den |-> totalTrades]
                     ELSE [num |-> 0, den |-> 1]]

\* The loop has ended: the summary is produced (runBacktest: the figures
\* it prints are kept in result).
Summary ==
    /\ pc = "summary"
    /\ pc' = "done"
    /\ result' = IF driver \in BacktestDrivers
                 THEN Some(PerformanceSummary(trades)) ELSE result
    /\ UNCHANGED << call, driver, cfg, allCandles, i, currentIndex, trades, balance,
                    apiCallCount, elapsed, delayNeeded, sinceCall, lastGap,
                    invocations, allHold >>

Next ==
    \/ Setup
    \/ RunStep
    \/ \E d \in Latencies : RunFetchReturn(d)
    \/ \E tradePlan \in TradePlans, d \in Latencies :
          RunOracleReturn(tradePlan, d)
    \/ \E d \in Latencies : RunOracleFails(d)
    \/ BacktestStep
    \/ \E tradingSignal \in Opinions, d \in Latencies :
          BacktestOracleReturn(tradingSignal, d)
    \/ WaitDone
    \/ Summary

Spec == Init /\ [][Next]_vars

\* ------------------------------------------------ the ledger used directly
\* BacktestExecutionHandler driven through its public methods by an
\* arbitrary client: placeOrder with any arguments, at any time.
LedgerParams ==
    { [size |-> SizeDecimals, stopLoss |-> P(99), takeProfit |-> P(103)],
      [size |-> SizeDecimals, stopLoss |-> P(101), takeProfit |-> P(97)] }

LedgerInit ==
    /\ driver = "ledger"
    /\ cfg \in Configs("ledger")
    /\ allCandles = << >>
    /\ pc = "ledger"
    /\ i = 0
    /\ currentIndex = 0
    /\ trades = << >>
    /\ balance = BalanceUnits(INITIAL_BALANCE)
    /\ apiCallCount = 0
    /\ elapsed = 0
    /\ delayNeeded = 0
    /\ sinceCall = Null
    /\ lastGap = Null
    /\ invocations = 0
    /\ allHold = TRUE
    /\ call = Null
    /\ result = Null

LedgerPlaceOrder(signal, params, entryPrice, entryTime) ==
    /\ driver = "ledger"
    /\ Len(trades) < MaxLedgerTrades
    /\ trades' = placeOrder(trades, signal, params, entryPrice,
                            Some(entryTime))
    /\ UNCHANGED << call, result, driver, cfg, allCandles, pc, i, currentIndex, balance,
                    apiCallCount, elapsed, delayNeeded, sinceCall, lastGap,
                    invocations, allHold >>

LedgerNext ==
    \E signal \in {"LONG", "SHORT"}, params \in LedgerParams,
       entryPrice \in {P(100), P(102)}, entryTime \in 1 .. MaxLedgerTrades :
        LedgerPlaceOrder(signal, params, entryPrice, entryTime)

SpecLedger == LedgerInit /\ [][LedgerNext]_vars

\* --------------------------- StrategyEngine.generateSignal, local indicators
\* JavaScript values carried by the parsed model output.
JsNumber(n) == [type |-> "number", num |-> n]
JsString(s) == [type |-> "string", str |-> s]
JsUndefined == [type |-> "undefined"]

\* The response text as a sequence of tokens: an opening brace, a closing
\* brace, any other text, or the member list of a JSON object.
MaxTextLen == 3

MemberLists ==
    [tok : {"members"},
     signal : {JsString("LONG"), JsString("HOLD"), JsString("BUY")},
     confidence : {JsNumber(MINIMUM_CONFIDENCE_THRESHOLD + 10),
                   JsString("high")},
     stop_loss_distance_in_usd : {JsNumber(P(1)), JsUndefined}]

Tokens == {[tok |-> "{"], [tok |-> "}"], [tok |-> "prose"]} \cup MemberLists

Texts == UNION { [1 .. n -> Tokens] : n \in 0 .. MaxTextLen }

\* What `await this.model.generateContent(prompt)` settles to: a rejection
\* (transport failure) or a response with a text.
ModelOutcomes == {[rejected |-> TRUE]} \cup { [text |-> t] : t \in Texts }

\* What calculateIndicators(marketData.ohlc) does.
IndicatorOutcomes == {"data", "null", "throws"}

\* text.match(/\{.*\}/s): the span from the first opening brace to the last
\* closing brace after it, or Null when there is none.
MatchObject(text) ==
    LET opens == { k \in 1 .. Len(text) : text[k].tok = "{" }
        first == CHOOSE a \in opens : \A k \in opens : a <= k
        closes == { k \in 1 .. Len(text) : text[k].tok = "}" /\ k > first }
        last == CHOOSE b \in closes : \A k \in closes : k <= b
    IN  IF opens = {} THEN Null
        ELSE IF closes = {} THEN Null
        ELSE Some(SubSeq(text, first, last))

\* JSON.parse of a span that starts with an opening and ends with a closing
\* brace: the object, or Null for a SyntaxError.
JSONparse(span) ==
    IF Len(span) = 2
    THEN Some([signal |-> JsUndefined, confidence |-> JsUndefined,
               stop_loss_distance_in_usd |-> JsUndefined])
    ELSE IF Len(span) = 3 /\ span[2].tok = "members"
    THEN Some([signal |-> span[2].signal, confidence |-> span[2].confidence,
               stop_loss_distance_in_usd |->
                   span[2].stop_loss_distance_in_usd])
    ELSE Null

\* The condition of the validation `if` (strategyEngine.js line 59).
Malformed(signalData) ==
    \/ signalData.signal.type # "string"
    \/ signalData.signal.str \notin Signals
    \/ signalData.confidence.type # "number"
    \/ signalData.stop_loss_distance_in_usd.type # "number"

\* A validated signalData as the opinion the drivers read.
Opinion(signalData) ==
    [signal |-> signalData.signal.str,
     confidence |-> signalData.confidence.num,
     stop_loss_distance_in_usd |-> signalData.stop_loss_distance_in_usd.num]

\* The object returned wherever generateSignal gives up.
HoldOpinion ==
    [signal |-> "HOLD", confidence |-> 0, stop_loss_distance_in_usd |-> 0]

\* The try block from the settled generateContent call on.
AfterGenerateContent(outcome) ==
    IF "rejected" \in DOMAIN outcome THEN Thrown
    ELSE LET match == MatchObject(outcome.text)
             parsed == JSONparse(match[1])
         IN  IF match = Null THEN Thrown
             ELSE IF parsed = Null THEN Thrown
             ELSE IF Malformed(parsed[1]) THEN Thrown
             ELSE Returned(Opinion(parsed[1]))

\* Variant: the exception propagates to the caller.
Catch_rethrows(r) == r

\* catch (error) { log.error(...); return HOLD opinion }
Catch(r) == IF r = Thrown THEN Returned(HoldOpinion) ELSE r

EngineInit ==
    /\ driver = "generateSignal"
    /\ cfg \in Configs("generateSignal")
    /\ allCandles = << >>
    /\ pc = "entry"
    /\ i = 0
    /\ currentIndex = 0
    /\ trades = << >>
    /\ balance = BalanceUnits(INITIAL_BALANCE)
    /\ apiCallCount = 0
    /\ elapsed = 0
    /\ delayNeeded = 0
    /\ sinceCall = Null
    /\ lastGap = Null
    /\ invocations = 0
    /\ allHold = TRUE
    /\ call \in [ohlcLength : {0, 1}, indicators : IndicatorOutcomes,
                 response : {Null}]
    /\ result = Null

\* generateSignal(marketData) up to its await (or to its return).
EngineEnter ==
    /\ driver = "generateSignal" /\ pc = "entry"
    /\ IF call.ohlcLength = 0
       THEN /\ result' = Returned(HoldOpinion)
            /\ pc' = "returned"
       ELSE IF call.indicators = "throws"
       THEN /\ result' = Catch(Thrown)
            /\ pc' = "returned"
       ELSE IF call.indicators = "null"
       THEN /\ result' = Returned(HoldOpinion)
            /\ pc' = "returned"
       ELSE /\ result' = Null
            /\ pc' = "await"
    /\ UNCHANGED << call, driver, cfg, allCandles, i, currentIndex, trades,
                    balance, apiCallCount, elapsed, delayNeeded, sinceCall,
                    lastGap, invocations, allHold >>

\* await this.model.generateContent(strategistPrompt) settles; the rest of
\* the try block and the catch.
EngineModelReturn ==
    /\ driver = "generateSignal" /\ pc = "await"
    /\ \E outcome \in ModelOutcomes :
          /\ call' = [call EXCEPT !.response = Some(outcome)]
          /\ result' = Catch(AfterGenerateContent(outcome))
    /\ pc' = "returned"
    /\ UNCHANGED << driver, cfg, allCandles, i, currentIndex, trades,
                    balance, apiCallCount, elapsed, delayNeeded, sinceCall,
                    lastGap, invocations, allHold >>

EngineNext ==
    \/ EngineEnter
    \/ EngineModelReturn

SpecEngine == EngineInit /\ [][EngineNext]_vars

\* ------------------------------------------- RiskManager, ATR-based sizing
\* (tick-aware revision, unnamed/part_012).  An ATR is the exact quotient
\* num / den of model price units.
MaxWindow == 2
ATR_PERIOD == 2
stopLossMultiplier == 2

\* True range of bar k of the window (1-based).
TrueRange(ohlcData, k) ==
    LET high == ohlcData[k].high
        low == ohlcData[k].low
        prevClose == IF k > 1 THEN ohlcData[k - 1].close ELSE high
        abs(x) == IF x < 0 THEN -x ELSE x
        max(a, b) == IF a >= b THEN a ELSE b
    IN  max(high - low, max(abs(high - prevClose), abs(low - prevClose)))

RECURSIVE SumTrueRanges(_, _)
SumTrueRanges(ohlcData, k) ==
    IF k > Len(ohlcData) THEN 0
    ELSE TrueRange(ohlcData, k) + SumTrueRanges(ohlcData, k + 1)

\* _calculateATR(ohlcData, period).  Reading .high of ohlcData[-1] on an
\* empty window is a TypeError.
_calculateATR(ohlcData, period) ==
    IF Len(ohlcData) < period
    THEN IF Len(ohlcData) = 0 THEN Thrown
         ELSE Returned([num |-> ohlcData[Len(ohlcData)].high
                                  - ohlcData[Len(ohlcData)].low,
                        den |-> 1])
    ELSE Returned([num |-> SumTrueRanges(ohlcData,
                                         Len(ohlcData) - period + 1),
                   den |-> period])

\* Variant: the zero test never fires.
ZeroATR_never(atr) == FALSE

\* atr === 0
ZeroATR(atr) == atr.num = 0

\* Variant: the level is not rounded to the tick.
MathRoundRatio_unrounded(n, den) == n \div den

\* Math.round of the price n / den model units.
MathRoundRatio(n, den) == RoundHalfUp(n, den * PriceScale) * PriceScale

\* calculateTradeParameters(marketData, tradingSignal), tick-aware revision,
\* on a non-empty window.  Null or Some(params).
calculateTradeParameters_tickAware(bal, ohlc, tradingSignal) ==
    LET signal == tradingSignal.signal
        lastPrice == ohlc[Len(ohlc)].close
        atr == _calculateATR(ohlc, ATR_PERIOD).returned
        stopLossDistance == atr.num * stopLossMultiplier
        rawStopLossPrice ==
            IF signal = "LONG" THEN lastPrice * atr.den - stopLossDistance
            ELSE lastPrice * atr.den + stopLossDistance
        rawTakeProfitPrice ==
            IF signal = "LONG"
            THEN lastPrice * atr.den + stopLossDistance * takeProfitMultiplier
            ELSE lastPrice * atr.den - stopLossDistance * takeProfitMultiplier
    IN  IF signal = "HOLD" THEN Null
        ELSE IF bal <= 0 THEN Null
        ELSE IF lastPrice <= 0 THEN Null
        ELSE IF ZeroATR(atr) THEN Null
        ELSE Some([size |-> RoundMulDiv(bal, leverage, lastPrice),
                   stopLoss |-> MathRoundRatio(rawStopLossPrice, atr.den),
                   takeProfit |-> MathRoundRatio(rawTakeProfitPrice,
                                                 atr.den)])

\* calculateTradeParameters(marketData, tradingSignal), risk-percentage
\* revision (unnamed/part_002), on a non-empty window: the size is the whole
\* number of contracts that loses riskPercentage of the equity at the stop,
\* the levels are rounded to cents (toFixed(2)).  Null or Some(params).
riskPercentage == 1

calculateTradeParameters_fixedFractional(accountEquity, ohlc, tradingSignal) ==
    LET signal == tradingSignal.signal
        lastPrice == ohlc[Len(ohlc)].close
        atr == _calculateATR(ohlc, ATR_PERIOD).returned
        stopLossDistance == atr.num * stopLossMultiplier
        positionSize ==
            ((accountEquity * riskPercentage * atr.den)
                 \div (100 * SizeDecimals)) \div stopLossDistance
        stopLossPrice ==
            IF signal = "LONG" THEN lastPrice * atr.den - stopLossDistance
            ELSE lastPrice * atr.den + stopLossDistance
        takeProfitPrice ==
            IF signal = "LONG"
            THEN lastPrice * atr.den + stopLossDistance * takeProfitMultiplier
            ELSE lastPrice * atr.den - stopLossDistance * takeProfitMultiplier
    IN  IF signal = "HOLD" THEN Null
        ELSE IF accountEquity = 0 THEN Null
        ELSE IF atr.num = 0 THEN Null
        ELSE IF positionSize <= 0 THEN Null
        ELSE Some([size |-> positionSize,
                   stopLoss |-> RoundHalfUp(100 * stopLossPrice,
                                            atr.den * PriceScale),
                   takeProfit |-> RoundHalfUp(100 * takeProfitPrice,
                                              atr.den * PriceScale)])

\* ------------------------------------------ the risk manager used directly
\* Bars of the windows handed to the risk manager.
RiskBars ==
    { [high |-> P(100), low |-> P(100), close |-> P(100)],
      [high |-> P(101), low |-> P(99), close |-> P(100)],
      [high |-> P(100) + 1, low |-> P(100), close |-> P(100)],
      [high |-> P(50000), low |-> P(50000), close |-> P(50000)],
      [high |-> P(50000) + 1, low |-> P(50000), close |-> P(50000)],
      [high |-> 0, low |-> 0, close |-> 0] }

RiskWindows == UNION { [1 .. n -> RiskBars] : n \in 0 .. MaxWindow }

\* Balances: none, the smallest representable one, 1 and INITIAL_BALANCE.
RiskBalances == {0, 1, BalanceUnits(1), BalanceUnits(INITIAL_BALANCE)}

RiskInit ==
    /\ driver = "riskManager"
    /\ cfg \in Configs("riskManager")
    /\ allCandles = << >>
    /\ pc = "call"
    /\ i = 0
    /\ currentIndex = 0
    /\ trades = << >>
    /\ balance = BalanceUnits(INITIAL_BALANCE)
    /\ apiCallCount = 0
    /\ elapsed = 0
    /\ delayNeeded = 0
    /\ sinceCall = Null
    /\ lastGap = Null
    /\ invocations = 0
    /\ allHold = TRUE
    /\ call \in [balance : RiskBalances, ohlc : RiskWindows,
                 tradingSignal : Opinions, period : {0}]
    /\ result = Null

RiskUnchanged ==
    UNCHANGED << driver, cfg, allCandles, i, currentIndex, balance,
                 apiCallCount, elapsed, delayNeeded, sinceCall, lastGap,
                 invocations, allHold >>

\* riskManager.calculateTradeParameters(marketData, tradingSignal), AI-driven
\* stop-loss revision.
RiskCalculate ==
    /\ driver = "riskManager" /\ pc = "call" /\ Len(call.ohlc) > 0
    /\ result' = calculateTradeParameters(call.balance,
                     call.ohlc[Len(call.ohlc)].close, call.tradingSignal)
    /\ pc' = "calculateTradeParameters"
    /\ UNCHANGED << call, trades >>
    /\ RiskUnchanged

\* riskManager.calculateTradeParameters(marketData, tradingSignal), tick-aware
\* revision.
RiskCalculateTickAware ==
    /\ driver = "riskManager" /\ pc = "call" /\ Len(call.ohlc) > 0
    /\ result' = calculateTradeParameters_tickAware(call.balance, call.ohlc,
                     call.tradingSignal)
    /\ pc' = "tickAware"
    /\ UNCHANGED << call, trades >>
    /\ RiskUnchanged

\* riskManager.calculateTradeParameters(marketData, tradingSignal),
\* risk-percentage revision; marketData.balance.accounts.mc is call.balance.
RiskCalculateFixedFractional ==
    /\ driver = "riskManager" /\ pc = "call" /\ Len(call.ohlc) > 0
    /\ result' = calculateTradeParameters_fixedFractional(call.balance,
                     call.ohlc, call.tradingSignal)
    /\ pc' = "fixedFractional"
    /\ UNCHANGED << call, trades >>
    /\ RiskUnchanged

\* riskManager._calculateATR(bars, period)
RiskCalculateATR(period) ==
    /\ driver = "riskManager" /\ pc = "call"
    /\ call' = [call EXCEPT !.period = period]
    /\ result' = _calculateATR(call.ohlc, period)
    /\ pc' = "_calculateATR"
    /\ UNCHANGED trades
    /\ RiskUnchanged

\* The entry decision of the replay loop on the opinion, with the tick-aware
\* risk manager (backtest.js lines 75-86).
RiskEntry ==
    /\ driver = "riskManager" /\ pc = "call" /\ Len(call.ohlc) > 0
    /\ LET currentCandle == call.ohlc[Len(call.ohlc)]
           tradeParams ==
               IF Qualifies(call.tradingSignal)
               THEN calculateTradeParameters_tickAware(call.balance,
                        call.ohlc, call.tradingSignal)
               ELSE Null
       IN  /\ result' = tradeParams
           /\ trades' =
                IF tradeParams # Null /\ tradeParams[1].size > 0
                THEN placeOrder(trades, call.tradingSignal.signal,
                                tradeParams[1], currentCandle.close,
                                Some(Len(call.ohlc)))
                ELSE trades
    /\ pc' = "entry"
    /\ UNCHANGED call
    /\ RiskUnchanged

RiskNext ==
    \/ RiskCalculate
    \/ RiskCalculateTickAware
    \/ RiskCalculateFixedFractional
    \/ \E period \in 1 .. MaxWindow + 1 : RiskCalculateATR(period)
    \/ RiskEntry

SpecRisk == RiskInit /\ [][RiskNext]_vars

\* ------------------------------------------- BacktestRunner.run on its own
\* Every await of run settles in the end (the database query, the model call
\* and the timer), so a step that is possible is eventually taken.
RunInit == Init /\ driver = "run"

RunNext ==
    \/ Setup
    \/ RunStep
    \/ \E d \in Latencies : RunFetchReturn(d)
    \/ \E tradePlan \in TradePlans, d \in Latencies :
          RunOracleReturn(tradePlan, d)
    \/ \E d \in Latencies : RunOracleFails(d)
    \/ WaitDone
    \/ Summary

SpecRun == RunInit /\ [][RunNext]_vars /\ WF_vars(RunNext)

\* ------------------------------- runBacktest with the MA crossover filter
\* (unnamed/part_004).  The EMA crossover test of the technicalindicators
\* library is an input of each pass; the pause before a call changes no
\* state of the ledger.
DATA_WINDOW_SIZE == 2
MaxMABars == 4

MABarShapes ==
    { [high |-> P(101), low |-> P(99), close |-> P(100)],
      [high |-> P(91),  low |-> P(89), close |-> P(90)],
      [high |-> P(120), low |-> P(80), close |-> P(100)] }

\* marketData.ohlc = allCandles.slice(i - DATA_WINDOW_SIZE, i)
MAWindow(k) == SubSeq(allCandles, k - DATA_WINDOW_SIZE + 1, k)

\* Variant: the sequence of exit tests stops at the first one that fires.
MAExitPrice_firstWins(currentCandle, openPosition) ==
    ExitPrice(currentCandle, openPosition)

\* The exitPrice left by the four consecutive if statements: each one that
\* fires overwrites the value of the one before it.
MAExitPrice(currentCandle, openPosition) ==
    LET e0 == Null
        e1 == IF openPosition.signal = "LONG"
                 /\ currentCandle.low <= openPosition.stopLoss
              THEN Some(openPosition.stopLoss) ELSE e0
        e2 == IF openPosition.signal = "LONG"
                 /\ currentCandle.high >= openPosition.takeProfit
              THEN Some(openPosition.takeProfit) ELSE e1
        e3 == IF openPosition.signal = "SHORT"
                 /\ currentCandle.high >= openPosition.stopLoss
              THEN Some(openPosition.stopLoss) ELSE e2
        e4 == IF openPosition.signal = "SHORT"
                 /\ currentCandle.low <= openPosition.takeProfit
              THEN Some(openPosition.takeProfit) ELSE e3
    IN  e4

MAInit ==
    /\ driver = "runBacktestMA"
    /\ cfg \in [MAX_API_CALLS : 0 .. MaxCalls,
                WARMUP_PERIOD : {DATA_WINDOW_SIZE},
                MIN_SECONDS_BETWEEN_CALLS : {MIN_SECONDS_BETWEEN_CALLS}]
    /\ \E n \in 0 .. MaxMABars : \E f \in [1 .. n -> MABarShapes] :
          allCandles = [k \in 1 .. n |->
                          [timestamp |-> k, high |-> f[k].high,
                           low |-> f[k].low, close |-> f[k].close]]
    /\ pc = "loop"
    /\ i = DATA_WINDOW_SIZE
    /\ currentIndex = 0
    /\ trades = << >>
    /\ balance = BalanceUnits(INITIAL_BALANCE)
    /\ apiCallCount = 0
    /\ elapsed = 0
    /\ delayNeeded = 0
    /\ sinceCall = Null
    /\ lastGap = Null
    /\ invocations = 0
    /\ allHold = TRUE
    /\ call = Null
    /\ result = Null

MAUnchanged ==
    UNCHANGED << result, driver, cfg, allCandles, currentIndex,
                 elapsed, sinceCall, lastGap, allHold >>

\* What the crossover test of a pass can find on the last two values of the
\* fast and the slow EMA of the window's closes: the two tests exclude each
\* other (lastFast > lastSlow, lastFast < lastSlow).
Crossovers == {"none", "bullish", "bearish"}

\* Variant: every pass gets through the filter.
MAFilterPasses_always(crossover) == TRUE

\* isBullishCrossover || isBearishCrossover
MAFilterPasses(crossover) == crossover \in {"bullish", "bearish"}

\* One pass of the for loop up to its first await: the closing logic with
\* its continue, then the crossover filter, the budget test and the pause
\* that precedes the call.
\* call keeps what the filter found in this pass (nothing when the filter was
\* not evaluated).
MAStep ==
    /\ driver = "runBacktestMA" /\ pc = "loop" /\ i < Len(allCandles)
    /\ LET currentCandle == Candle(i)
           openPosition == getOpenTrade(trades)
           exitPrice == IF openPosition = Null THEN Null
                        ELSE MAExitPrice(currentCandle,
                                         trades[openPosition[1]])
       IN  IF openPosition # Null /\ Truthy(exitPrice)
           THEN LET closed == closeTrade(trades, balance, openPosition[1],
                                         exitPrice[1], currentCandle)
                IN  /\ trades' = closed.trades
                    /\ balance' = closed.balance
                    /\ i' = i + 1
                    /\ call' = Null
                    /\ UNCHANGED << pc, apiCallCount, invocations,
                                    delayNeeded >>
           ELSE IF openPosition # Null
           THEN /\ i' = i + 1
                /\ call' = Null
                /\ UNCHANGED << pc, trades, balance, apiCallCount,
                                invocations, delayNeeded >>
           ELSE \E crossover \in Crossovers :
                /\ call' = Some(crossover)
                /\ IF ~MAFilterPasses(crossover)
                   THEN /\ i' = i + 1
                        /\ UNCHANGED << pc, trades, balance, apiCallCount,
                                        invocations, delayNeeded >>
                   ELSE IF apiCallCount >= cfg.MAX_API_CALLS
                   THEN /\ pc' = "summary"
                        /\ UNCHANGED << i, trades, balance, apiCallCount,
                                        invocations, delayNeeded >>
                   ELSE /\ pc' = "wait"
                        /\ delayNeeded' = cfg.MIN_SECONDS_BETWEEN_CALLS
                        /\ UNCHANGED << i, trades, balance, apiCallCount,
                                        invocations >>
    /\ MAUnchanged

\* The pause has passed: apiCallCount++, then generateSignal is invoked.
MAWaitDone ==
    /\ driver = "runBacktestMA" /\ pc = "wait"
    /\ apiCallCount' = apiCallCount + 1
    /\ invocations' = invocations + 1
    /\ delayNeeded' = 0
    /\ pc' = "oracle"
    /\ UNCHANGED << call, i, trades, balance >>
    /\ MAUnchanged

\* generateSignal has returned: threshold, risk manager, placeOrder at the
\* close of the current candle.
MAOracleReturn ==
    /\ driver = "runBacktestMA" /\ pc = "oracle"
    /\ \E tradingSignal \in Opinions :
         LET currentCandle == Candle(i)
             tradeParams ==
                 calculateTradeParameters_tickAware(balance, MAWindow(i),
                                                    tradingSignal)
         IN  trades' =
               IF /\ tradingSignal.signal # "HOLD"
                  /\ tradingSignal.confidence >= MINIMUM_CONFIDENCE_THRESHOLD
                  /\ tradeParams # Null /\ tradeParams[1].size > 0
               THEN placeOrder(trades, tradingSignal.signal, tradeParams[1],
                               currentCandle.close,
                               Some(currentCandle.timestamp))
               ELSE trades
    /\ i' = i + 1
    /\ pc' = "loop"
    /\ UNCHANGED << call, balance, apiCallCount, invocations, delayNeeded >>
    /\ MAUnchanged

\* The loop condition fails.
MALoopEnd ==
    /\ driver = "runBacktestMA" /\ pc = "loop" /\ i >= Len(allCandles)
    /\ pc' = "summary"
    /\ UNCHANGED << call, i, trades, balance, apiCallCount, invocations,
                    delayNeeded >>
    /\ MAUnchanged

\* The final results read simulatedAccount, which nothing defines: the
\* ReferenceError rejects runBacktest and the caller's catch logs it.
MASummary ==
    /\ driver = "runBacktestMA" /\ pc = "summary"
    /\ pc' = "error"
    /\ UNCHANGED << call, i, trades, balance, apiCallCount, invocations,
                    delayNeeded >>
    /\ MAUnchanged

MANext == MAStep \/ MAWaitDone \/ MAOracleReturn \/ MALoopEnd \/ MASummary

SpecMA == MAInit /\ [][MANext]_vars

\* ------------------- StrategyEngine.generateSignal, Hybrid Quantitative
\* prompt revision (unnamed/part_000).  Its try block fails in the same cases
\* as AfterGenerateContent.
\* catch (error) { log.error(`... "${responseText}"`, error); return HOLD }:
\* responseText is a const of the try block and is not in scope in the
\* handler, so building the log message raises a ReferenceError before the
\* return statement is reached.
HybridCatch(r) == IF r = Thrown THEN Thrown ELSE r

HybridInit ==
    /\ driver = "generateSignalHybrid"
    /\ cfg \in Configs("generateSignalHybrid")
    /\ allCandles = << >>
    /\ pc = "entry"
    /\ i = 0
    /\ currentIndex = 0
    /\ trades = << >>
    /\ balance = BalanceUnits(INITIAL_BALANCE)
    /\ apiCallCount = 0
    /\ elapsed = 0
    /\ delayNeeded = 0
    /\ sinceCall = Null
    /\ lastGap = Null
    /\ invocations = 0
    /\ allHold = TRUE
    /\ call \in [ohlcLength : {0, 1}, response : {Null}]
    /\ result = Null

\* generateSignal(marketData) up to its await (or to its early return).
HybridEnter ==
    /\ driver = "generateSignalHybrid" /\ pc = "entry"
    /\ IF call.ohlcLength = 0
       THEN /\ result' = Returned(HoldOpinion)
            /\ pc' = "returned"
       ELSE /\ result' = Null
            /\ pc' = "await"
    /\ UNCHANGED << call, driver, cfg, allCandles, i, currentIndex, trades,
                    balance, apiCallCount, elapsed, delayNeeded, sinceCall,
                    lastGap, invocations, allHold >>

\* await this.model.generateContent(prompt) settles; the rest of the try
\* block and the catch.
HybridModelReturn ==
    /\ driver = "generateSignalHybrid" /\ pc = "await"
    /\ \E outcome \in ModelOutcomes :
          /\ call' = [call EXCEPT !.response = Some(outcome)]
          /\ result' = HybridCatch(AfterGenerateContent(outcome))
    /\ pc' = "returned"
    /\ UNCHANGED << driver, cfg, allCandles, i, currentIndex, trades,
                    balance, apiCallCount, elapsed, delayNeeded, sinceCall,
                    lastGap, invocations, allHold >>

HybridNext == HybridEnter \/ HybridModelReturn

SpecHybrid == HybridInit /\ [][HybridNext]_vars

\* ------------------------------------------------ two runs, one after the other
\* The replay loop is run twice on the same bars and configuration with a
\* stubbed oracle whose answer is a function of the window, here of the
\* number of bars the window holds; the latencies of the two runs are free.
\* call.first keeps the outcome of the first run.
MaxDetBars == 3

DetDrivers == {"run", "runBacktest"}

DetBarShapes ==
    { [high |-> P(100), low |-> P(100), close |-> P(100)],
      [high |-> P(104), low |-> P(96),  close |-> P(100)] }

\* The stub's answers: a trade plan for BacktestRunner.run, an opinion for
\* runBacktest.
DetAnswers(d) ==
    IF d = "run"
    THEN { [signal |-> "HOLD", confidence |-> MINIMUM_CONFIDENCE_THRESHOLD,
            entry_price |-> P(100), stop_loss_price |-> P(99),
            take_profit_price |-> P(103)],
           [signal |-> "LONG", confidence |-> MINIMUM_CONFIDENCE_THRESHOLD,
            entry_price |-> P(100), stop_loss_price |-> P(99),
            take_profit_price |-> P(103)],
           [signal |-> "SHORT", confidence |-> MINIMUM_CONFIDENCE_THRESHOLD,
            entry_price |-> P(102), stop_loss_price |-> P(103),
            take_profit_price |-> P(100)] }
    ELSE { [signal |-> "HOLD", confidence |-> MINIMUM_CONFIDENCE_THRESHOLD,
            stop_loss_distance_in_usd |-> 0],
           [signal |-> "LONG", confidence |-> MINIMUM_CONFIDENCE_THRESHOLD,
            stop_loss_distance_in_usd |-> P(1)],
           [signal |-> "SHORT", confidence |-> MINIMUM_CONFIDENCE_THRESHOLD,
            stop_loss_distance_in_usd |-> P(1)] }

DetInit ==
    /\ driver \in DetDrivers
    /\ cfg \in Configs(driver)
    /\ \E n \in 0 .. MaxDetBars : \E f \in [1 .. n -> DetBarShapes] :
          allCandles = [k \in 1 .. n |->
                          [timestamp |-> k, high |-> f[k].high,
                           low |-> f[k].low, close |-> f[k].close]]
    /\ pc = "start"
    /\ i = 0
    /\ currentIndex = 0
    /\ trades = << >>
    /\ balance = BalanceUnits(INITIAL_BALANCE)
    /\ apiCallCount = 0
    /\ elapsed = 0
    /\ delayNeeded = 0
    /\ sinceCall = Null
    /\ lastGap = Null
    /\ invocations = 0
    /\ allHold = TRUE
    /\ call \in [oracle : [1 .. MaxDetBars -> DetAnswers(driver)],
                 first : {Null}]
    /\ result = Null

\* generateSignal of the stub returns after d what it answers to the window
\* that ends at bar i.
DetRunOracleReturn ==
    /\ driver = "run" /\ pc = "oracle"
    /\ \E d \in Latencies : RunOracleReturn(call.oracle[i + 1], d)

\* The same for runBacktest, whose window ends at the bar just consumed.
DetBacktestOracleReturn ==
    /\ driver = "runBacktest" /\ pc = "oracle"
    /\ \E d \in Latencies : BacktestOracleReturn(call.oracle[currentIndex], d)

\* The first run has ended: its outcome is kept and the second run starts
\* from a fresh runner on the same bars, configuration and stub.
DetRerun ==
    /\ driver \in DetDrivers /\ pc \in {"done", "error"}
    /\ call.first = Null
    /\ call' = [call EXCEPT !.first =
                   Some([pc |-> pc, trades |-> trades, balance |-> balance,
                         invocations |-> invocations,
                         apiCallCount |-> apiCallCount,
                         sinceCall |-> sinceCall])]
    /\ pc' = "start"
    /\ i' = 0
    /\ currentIndex' = 0
    /\ trades' = << >>
    /\ balance' = BalanceUnits(INITIAL_BALANCE)
    /\ apiCallCount' = 0
    /\ elapsed' = 0
    /\ delayNeeded' = 0
    /\ sinceCall' = Null
    /\ lastGap' = Null
    /\ invocations' = 0
    /\ allHold' = TRUE
    /\ result' = Null
    /\ UNCHANGED << driver, cfg, allCandles >>

DetNext ==
    \/ Setup
    \/ RunStep
    \/ \E d \in Latencies : RunFetchReturn(d)
    \/ DetRunOracleReturn
    \/ BacktestStep
    \/ DetBacktestOracleReturn
    \/ WaitDone
    \/ Summary
    \/ DetRerun

SpecDet == DetInit /\ [][DetNext]_vars

\* ------------------------------------------- the window handed to the oracle
\* Array.prototype.slice(start, end) on a sequence: a negative index counts
\* from the end, both are clamped to the length.
slice(seq, start, end) ==
    LET len == Len(seq)
        from == IF start < 0 THEN (IF len + start < 0 THEN 0 ELSE len + start)
                ELSE Min(start, len)
        to == IF end < 0 THEN (IF len + end < 0 THEN 0 ELSE len + end)
              ELSE Min(end, len)
    IN  IF from < to THEN SubSeq(seq, from + 1, to) ELSE << >>

\* Series lengths and window configurations of the direct calls.
MaxSeries == 4
MaxWindowSize == 4

WindowInit ==
    /\ driver = "window"
    /\ cfg \in [DATA_WINDOW_SIZE : 1 .. MaxWindowSize,
                WARMUP_PERIOD : 0 .. MaxSeries]
    /\ \E n \in 0 .. MaxSeries :
          allCandles = [k \in 1 .. n |->
                          [timestamp |-> k, high |-> P(100),
                           low |-> P(100), close |-> P(100)]]
    /\ pc = "start"
    /\ i = 0
    /\ currentIndex = 0
    /\ trades = << >>
    /\ balance = BalanceUnits(INITIAL_BALANCE)
    /\ apiCallCount = 0
    /\ elapsed = 0
    /\ delayNeeded = 0
    /\ sinceCall = Null
    /\ lastGap = Null
    /\ invocations = 0
    /\ allHold = TRUE
    /\ call = Null
    /\ result = Null

WindowUnchanged ==
    UNCHANGED << driver, cfg, allCandles, currentIndex, trades, balance,
                 apiCallCount, elapsed, delayNeeded, sinceCall, lastGap,
                 invocations, allHold, call >>

\* BacktestRunner.run assembles ohlc_1h in the pass for bar k, any k from
\* WARMUP_PERIOD on.
WindowRun ==
    /\ driver = "window" /\ pc = "start"
    /\ Len(allCandles) >= cfg.WARMUP_PERIOD
    /\ \E k \in cfg.WARMUP_PERIOD .. Len(allCandles) - 1 :
          /\ i' = k
          /\ result' = slice(allCandles, k - cfg.DATA_WINDOW_SIZE, k)
    /\ pc' = "run"
    /\ WindowUnchanged

\* runBacktest (MA crossover filter) assembles marketData.ohlc in the pass for
\* bar k; its WARMUP_PERIOD is its DATA_WINDOW_SIZE.
WindowMA ==
    /\ driver = "window" /\ pc = "start"
    /\ \E k \in cfg.DATA_WINDOW_SIZE .. Len(allCandles) - 1 :
          /\ i' = k
          /\ result' = slice(allCandles, k - cfg.DATA_WINDOW_SIZE, k)
    /\ pc' = "runBacktestMA"
    /\ WindowUnchanged

WindowNext == WindowRun \/ WindowMA

SpecWindow == WindowInit /\ [][WindowNext]_vars

\* ------------------------------------- BacktestDataHandler.fetchAllData
\* allCandles is allOhlcData, currentIndex the handler's cursor, i the number
\* of fetchAllData calls made so far, result what the latest call returned.
\* Variant: the window starts one bar earlier.
startIndex_oneEarlier(cursor) ==
    IF cursor - DATA_WINDOW_SIZE < 0 THEN 0 ELSE cursor - DATA_WINDOW_SIZE

\* Math.max(0, this.currentIndex - DATA_WINDOW_SIZE + 1)
startIndex(cursor) ==
    IF cursor - DATA_WINDOW_SIZE + 1 < 0 THEN 0
    ELSE cursor - DATA_WINDOW_SIZE + 1

DataInit ==
    /\ driver = "fetchAllData"
    /\ cfg \in Configs("fetchAllData")
    /\ \E n \in 0 .. MaxSeries : \E f \in [1 .. n -> DetBarShapes] :
          allCandles = [k \in 1 .. n |->
                          [timestamp |-> k, high |-> f[k].high,
                           low |-> f[k].low, close |-> f[k].close]]
    /\ pc = "idle"
    /\ i = 0
    /\ currentIndex = 0
    /\ trades = << >>
    /\ balance = BalanceUnits(INITIAL_BALANCE)
    /\ apiCallCount = 0
    /\ elapsed = 0
    /\ delayNeeded = 0
    /\ sinceCall = Null
    /\ lastGap = Null
    /\ invocations = 0
    /\ allHold = TRUE
    /\ call = Null
    /\ result = Null

\* One call of fetchAllData(); calls go on after the data has run out.
DataFetchAllData ==
    /\ driver = "fetchAllData" /\ pc = "idle"
    /\ i < Len(allCandles) + 2
    /\ i' = i + 1
    /\ IF currentIndex >= Len(allCandles)
       THEN /\ result' = Returned(Null)
            /\ currentIndex' = currentIndex
       ELSE /\ result' = Returned(Some(
                   [ohlc |-> slice(allCandles, startIndex(currentIndex),
                                   currentIndex + 1),
                    balance |-> 0]))
            /\ currentIndex' = currentIndex + 1
    /\ UNCHANGED << driver, cfg, allCandles, pc, trades, balance,
                    apiCallCount, elapsed, delayNeeded, sinceCall, lastGap,
                    invocations, allHold, call >>

DataNext == DataFetchAllData

SpecData == DataInit /\ [][DataNext]_vars

\* ------------------------------------------- runBacktest with wide stops
\* The same loop on bars and opinions that let one trade lose more than the
\* balance: a stop 20 away from the entry with a bar that reaches it, and a
\* bar whose close is recorded as 0.
RuinBarShapes ==
    { [high |-> P(100), low |-> P(100), close |-> P(100)],
      [high |-> P(120), low |-> P(80),  close |-> P(100)],
      [high |-> P(100), low |-> P(100), close |-> 0] }

RuinOpinions ==
    { [signal |-> "HOLD", confidence |-> MINIMUM_CONFIDENCE_THRESHOLD,
       stop_loss_distance_in_usd |-> 0],
      [signal |-> "LONG", confidence |-> MINIMUM_CONFIDENCE_THRESHOLD,
       stop_loss_distance_in_usd |-> P(20)],
      [signal |-> "SHORT", confidence |-> MINIMUM_CONFIDENCE_THRESHOLD,
       stop_loss_distance_in_usd |-> P(20)] }

RuinInit ==
    /\ driver = "runBacktest"
    /\ cfg \in Configs(driver)
    /\ \E n \in 0 .. MaxBars : \E f \in [1 .. n -> RuinBarShapes] :
          allCandles = [k \in 1 .. n |->
                          [timestamp |-> k, high |-> f[k].high,
                           low |-> f[k].low, close |-> f[k].close]]
    /\ pc = "start"
    /\ i = 0
    /\ currentIndex = 0
    /\ trades = << >>
    /\ balance = BalanceUnits(INITIAL_BALANCE)
    /\ apiCallCount = 0
    /\ elapsed = 0
    /\ delayNeeded = 0
    /\ sinceCall = Null
    /\ lastGap = Null
    /\ invocations = 0
    /\ allHold = TRUE
    /\ call = Null
    /\ result = Null

\* generateSignal returns one of the opinions above.
RuinOracleReturn ==
    /\ driver = "runBacktest" /\ pc = "oracle"
    /\ \E tradingSignal \in RuinOpinions, d \in Latencies :
          BacktestOracleReturn(tradingSignal, d)

RuinNext == Setup \/ BacktestStep \/ RuinOracleReturn \/ Summary

SpecRuin == RuinInit /\ [][RuinNext]_vars

\* ----------------------------------------------- one live trading cycle
\* main() of the bot, revision with the open-position check
\* (unnamed/part_011, driver "main") and revision with the per-pair check and
\* the confidence threshold (unnamed/part_004, driver "mainConfidence").
\* call is the fetched marketData, result the signal the engine returned,
\* invocations the generateSignal calls, trades the orders handed to
\* ExecutionHandler.placeOrder.  What the risk manager returns is an input.
BotDrivers == {"main", "mainConfidence"}

FUTURES_TRADING_PAIR == "PF_XBTUSD"

\* marketData.positions.openPositions: symbols of the open positions, or
\* Null when the account data carries none.
PositionSymbols == {FUTURES_TRADING_PAIR, "PF_ETHUSD"}
MaxPositions == 2
FetchedPositions ==
    {Null} \cup { Some(s) : s \in UNION { [1 .. n -> PositionSymbols] :
                                           n \in 0 .. MaxPositions } }

\* Variant: no position is ever seen.
observedPositions_none(d, positions) == << >>

\* The positions the cycle looks at: all of them (part_011 line 31), those
\* of the traded pair (part_004 line 317).
observedPositions(d, positions) ==
    IF positions = Null THEN << >>
    ELSE IF d = "main" THEN positions[1]
    ELSE SelectSeq(positions[1], LAMBDA p : p = FUTURES_TRADING_PAIR)

BotInit ==
    /\ driver \in BotDrivers
    /\ cfg \in Configs(driver)
    /\ allCandles = << >>
    /\ pc = "fetch"
    /\ i = 0
    /\ currentIndex = 0
    /\ trades = << >>
    /\ balance = BalanceUnits(INITIAL_BALANCE)
    /\ apiCallCount = 0
    /\ elapsed = 0
    /\ delayNeeded = 0
    /\ sinceCall = Null
    /\ lastGap = Null
    /\ invocations = 0
    /\ allHold = TRUE
    /\ call = Null
    /\ result = Null

BotUnchanged ==
    UNCHANGED << driver, cfg, allCandles, i, currentIndex, balance,
                 apiCallCount, elapsed, delayNeeded, sinceCall, lastGap,
                 allHold >>

\* await dataHandler.fetchAllData(...) returns: the open-position check,
\* then generateSignal is invoked.
BotFetchReturn ==
    /\ driver \in BotDrivers /\ pc = "fetch"
    /\ \E positions \in FetchedPositions :
          /\ call' = Some([positions |-> positions])
          /\ IF Len(observedPositions(driver, positions)) > 0
             THEN /\ pc' = "finished"
                  /\ invocations' = invocations
             ELSE /\ pc' = "oracle"
                  /\ invocations' = invocations + 1
    /\ UNCHANGED << trades, result >>
    /\ BotUnchanged

\* await strategyEngine.generateSignal(marketData) returns: the signal (and
\* confidence) test, the risk manager, then placeOrder is called.
BotOracleReturn ==
    /\ driver \in BotDrivers /\ pc = "oracle"
    /\ \E tradingSignal \in Opinions, tradeParams \in BOOLEAN :
          /\ result' = Some(tradingSignal)
          /\ IF /\ tradingSignal.signal # "HOLD"
                /\ (driver = "mainConfidence" =>
                       tradingSignal.confidence
                           >= MINIMUM_CONFIDENCE_THRESHOLD)
                /\ tradeParams
             THEN /\ trades' = Append(trades,
                                      [signal |-> tradingSignal.signal,
                                       pair |-> IF driver = "main"
                                                THEN "PI_XBTUSD"
                                                ELSE FUTURES_TRADING_PAIR])
                  /\ pc' = "placeOrder"
             ELSE /\ trades' = trades
                  /\ pc' = "finished"
    /\ UNCHANGED << call, invocations >>
    /\ BotUnchanged

\* await executionHandler.placeOrder(...) returns.
BotPlaceOrderReturn ==
    /\ driver \in BotDrivers /\ pc = "placeOrder"
    /\ pc' = "finished"
    /\ UNCHANGED << call, result, trades, invocations >>
    /\ BotUnchanged

\* One of the awaited calls rejects: the catch block of main.
BotFails ==
    /\ driver \in BotDrivers /\ pc \in {"fetch", "oracle", "placeOrder"}
    /\ pc' = "error"
    /\ UNCHANGED << call, result, trades, invocations >>
    /\ BotUnchanged

BotNext ==
    \/ BotFetchReturn
    \/ BotOracleReturn
    \/ BotPlaceOrderReturn
    \/ BotFails

SpecBot == BotInit /\ [][BotNext]_vars

\* ================================================================= claims
\* The bar the pending loop pass is about to process, when there is one.
StepIndex == IF driver = "run" THEN i ELSE currentIndex
AtBar == driver \in Drivers /\ pc = "loop" /\ StepIndex < Len(allCandles)

ClosedIndices(ts) == { k \in 1 .. Len(ts) : ts[k].status = "closed" }

\* Both levels of trade t lie inside the candle's range.
BothTrigger(candle, t) ==
    \/ t.signal = "LONG" /\ candle.low <= t.stopLoss
                         /\ candle.high >= t.takeProfit
    \/ t.signal = "SHORT" /\ candle.high >= t.stopLoss
                          /\ candle.low <= t.takeProfit

\* C1: in every reachable state of a backtest run the trade log holds at
\* most one trade with status 'open'.
C1_AtMostOneOpen == Cardinality(OpenIndices(trades)) <= 1

C1_Witness ==
    /\ Len(trades) >= 2
    /\ Cardinality(OpenIndices(trades)) = 1
    /\ Cardinality(ClosedIndices(trades)) >= 1

\* C2: with a call budget, the number of generateSignal invocations never
\* exceeds MAX_API_CALLS, and a loop pass that finds the budget used up with
\* no position open ends the loop normally without invoking the oracle.
C2_BudgetRespected ==
    /\ [](HasBudget(driver) => invocations <= cfg.MAX_API_CALLS)
    /\ [][ ( /\ HasBudget(driver) /\ AtBar
             /\ apiCallCount >= cfg.MAX_API_CALLS
             /\ getOpenTrade(trades') = Null )
           => (pc' = "summary" /\ invocations' = invocations) ]_vars

C2_Witness ==
    /\ driver = "run" /\ pc = "done"
    /\ cfg.MAX_API_CALLS >= 1
    /\ invocations = cfg.MAX_API_CALLS
    /\ i < Len(allCandles)

\* C3: in BacktestRunner.run and the Real-Time Simulation, two consecutive
\* generateSignal invocations are at least MIN_SECONDS_BETWEEN_CALLS apart.
C3_MinGapBetweenCalls ==
    (driver \in {"run", "runBacktestRT"} /\ lastGap # Null)
        => lastGap[1] >= cfg.MIN_SECONDS_BETWEEN_CALLS

ClosedAtStopOnBothTrigger(t) ==
    /\ t.status = "closed"
    /\ t.exitPrice = Some(t.stopLoss)
    /\ t.stopLoss # t.takeProfit
    /\ BothTrigger(allCandles[t.exitTime[1]], t)

C5_ExitAtOwnLevel ==
    \A k \in ClosedIndices(trades) :
        \/ trades[k].exitPrice = Some(trades[k].stopLoss)
        \/ trades[k].exitPrice = Some(trades[k].takeProfit)

C5_Witness ==
    /\ \E k \in ClosedIndices(trades) :
          /\ trades[k].exitPrice = Some(trades[k].takeProfit)
          /\ trades[k].takeProfit # trades[k].stopLoss
    /\ \E k \in ClosedIndices(trades) :
          /\ trades[k].exitPrice = Some(trades[k].stopLoss)
          /\ trades[k].takeProfit # trades[k].stopLoss

\* C6: in runBacktest the balance equals INITIAL_BALANCE plus the pnl of all
\* closed trades, each pnl = (exitPrice - entryPrice) * size * (+1 LONG,
\* -1 SHORT), and the balance changes only in a step that closes a position.
RECURSIVE SumClosedPnl(_)
SumClosedPnl(ts) ==
    IF ts = << >> THEN 0
    ELSE (IF Head(ts).status = "closed" THEN Head(ts).pnl ELSE 0)
         + SumClosedPnl(Tail(ts))

C6_BalanceIsRealizedPnl ==
    /\ [](driver \in BacktestDrivers =>
            /\ balance = BalanceUnits(INITIAL_BALANCE) + SumClosedPnl(trades)
            /\ \A k \in ClosedIndices(trades) :
                  trades[k].pnl =
                      IF trades[k].signal = "LONG"
                      THEN (trades[k].exitPrice[1] - trades[k].entryPrice)
                               * trades[k].size
                      ELSE (trades[k].entryPrice - trades[k].exitPrice[1])
                               * trades[k].size)
    /\ [][ (driver \in BacktestDrivers /\ balance' # balance)
           => \E k \in OpenIndices(trades) : trades'[k].status = "closed" ]_vars

C6_Witness ==
    /\ driver \in BacktestDrivers
    /\ balance # BalanceUnits(INITIAL_BALANCE)
    /\ \E k \in ClosedIndices(trades) :
          trades[k].signal = "SHORT" /\ trades[k].pnl > 0
    /\ \E k \in ClosedIndices(trades) :
          trades[k].signal = "LONG" /\ trades[k].pnl < 0

\* C7: in runBacktest, for consecutive trades A then B,
\* exitTime(A) < entryTime(B).
C7_NoOverlapStrict ==
    driver \in BacktestDrivers =>
        \A a \in 1 .. Len(trades), b \in 1 .. Len(trades) :
            a < b => /\ trades[a].exitTime # Null
                     /\ trades[a].exitTime[1] < trades[b].entryTime[1]

\* What the code does guarantee (see C26 for the same-bar re-entry): in
\* runBacktest, for consecutive trades A then B, A is closed and
\* entryTime(A) < exitTime(A) <= entryTime(B): two trades share at most the
\* bar that closed the first and opened the second.
C7_NoOverlapUpToEndpoint ==
    driver \in BacktestDrivers =>
        /\ \A a \in 1 .. Len(trades), b \in 1 .. Len(trades) :
              a < b => /\ trades[a].exitTime # Null
                       /\ trades[a].exitTime[1] <= trades[b].entryTime[1]
        /\ \A a \in ClosedIndices(trades) :
              trades[a].entryTime[1] < trades[a].exitTime[1]

C7_Witness ==
    /\ driver \in BacktestDrivers
    /\ \E a \in 1 .. Len(trades), b \in 1 .. Len(trades) :
          /\ a < b
          /\ trades[a].exitTime = trades[b].entryTime
          /\ trades[b].status = "closed"

\* C8: with MAX_API_CALLS = 0 and at least WARMUP_PERIOD bars,
\* BacktestRunner.run makes no oracle invocation, records no trade and keeps
\* the balance at INITIAL_BALANCE, and ends without error.
C8_ZeroBudget ==
    ( /\ driver = "run" /\ cfg.MAX_API_CALLS = 0
      /\ Len(allCandles) >= cfg.WARMUP_PERIOD )
        => /\ invocations = 0
           /\ apiCallCount = 0
           /\ trades = << >>
           /\ balance = BalanceUnits(INITIAL_BALANCE)
           /\ pc \in {"start", "loop", "summary", "done"}

C8_Witness ==
    /\ driver = "run" /\ cfg.MAX_API_CALLS = 0
    /\ Len(allCandles) > cfg.WARMUP_PERIOD
    /\ pc = "done"

\* C9: while every opinion returned by the oracle has signal HOLD, no trade
\* is recorded and the balance equals the initial balance.
C9_AllHoldNoTrades ==
    allHold => /\ trades = << >>
               /\ balance = BalanceUnits(INITIAL_BALANCE)

C9_Witness ==
    /\ allHold /\ pc = "done"
    /\ invocations >= 2
    /\ driver = "run"

\* C10: placeOrder called while a trade with status 'open' exists leaves the
\* trade log unchanged (it fails instead of appending a second open trade).
C10_PlaceOrderRejectedWhileOpen ==
    [][ getOpenTrade(trades) # Null => trades' = trades ]_vars

\* The settled model call is one of the failures the engine recovers from:
\* a rejection, a text without a JSON object, a JSON syntax error, or an
\* object whose fields fail the validation.
FailedResponse(outcome) ==
    \/ "rejected" \in DOMAIN outcome
    \/ MatchObject(outcome.text) = Null
    \/ JSONparse(MatchObject(outcome.text)[1]) = Null
    \/ Malformed(JSONparse(MatchObject(outcome.text)[1])[1])

\* C11: generateSignal (local-indicator revision) never throws; after a
\* transport failure, a missing JSON object, a parse error or a parsed object
\* with an invalid signal, confidence or stop distance it returns signal HOLD
\* with confidence 0, which the replay loop does not act on.
C11_NeverThrowsHoldOnFailure ==
    (driver = "generateSignal" /\ pc = "returned") =>
        /\ result # Thrown
        /\ "returned" \in DOMAIN result
        /\ (call.response = Null \/ FailedResponse(call.response[1])) =>
              /\ result.returned.signal = "HOLD"
              /\ result.returned.confidence = 0
              /\ ~Qualifies(result.returned)

C11_Witness ==
    /\ driver = "generateSignal" /\ pc = "returned"
    /\ call.response # Null
    /\ "text" \in DOMAIN call.response[1]
    /\ MatchObject(call.response[1].text) # Null
    /\ JSONparse(MatchObject(call.response[1].text)[1]) # Null
    /\ JSONparse(MatchObject(call.response[1].text)[1])[1].signal
          = JsString("BUY")
    /\ result = Returned(HoldOpinion)

LastPrice == call.ohlc[Len(call.ohlc)].close

\* A direct call of calculateTradeParameters (either revision) has returned
\* trade parameters.
ReturnedParams ==
    /\ driver = "riskManager"
    /\ pc \in {"calculateTradeParameters", "tickAware"}
    /\ result # Null

\* C14: whenever calculateTradeParameters returns trade parameters, the
\* rounded levels lie strictly on either side of the last price:
\* stopLoss < lastPrice < takeProfit for LONG, takeProfit < lastPrice <
\* stopLoss for SHORT.
C14_LevelsStraddleLastPrice ==
    ReturnedParams =>
        IF call.tradingSignal.signal = "LONG"
        THEN /\ result[1].stopLoss < LastPrice
             /\ LastPrice < result[1].takeProfit
        ELSE /\ result[1].takeProfit < LastPrice
             /\ LastPrice < result[1].stopLoss

\* The ATR of the window under the direct call, at the default period.
CallATR == _calculateATR(call.ohlc, ATR_PERIOD).returned

\* |x - n / den| <= 1/2 tick, for a level x in model units.
NearestTick(x, n, den) ==
    /\ x % PriceScale = 0
    /\ 2 * (x * den - n) <= den * PriceScale
    /\ 2 * (n - x * den) <= den * PriceScale

\* C15: the tick-aware calculateTradeParameters places the stop-loss at the
\* whole price nearest to lastPrice -/+ atr * stopLossMultiplier and the
\* take-profit at the whole price nearest to lastPrice +/- that distance
\* times takeProfitMultiplier (LONG / SHORT); lastPrice 100 with ATR 2 gives
\* a LONG stopLoss 96 and takeProfit 112.
C15_LevelsFromATR ==
    (driver = "riskManager" /\ pc = "tickAware" /\ result # Null) =>
        LET dir == IF call.tradingSignal.signal = "LONG" THEN 1 ELSE -1
            distance == CallATR.num * stopLossMultiplier
        IN  /\ NearestTick(result[1].stopLoss,
                           LastPrice * CallATR.den - dir * distance,
                           CallATR.den)
            /\ NearestTick(result[1].takeProfit,
                           LastPrice * CallATR.den
                               + dir * distance * takeProfitMultiplier,
                           CallATR.den)
            /\ ( /\ LastPrice = P(100) /\ CallATR.num = P(2) * CallATR.den
                 /\ dir = 1 )
                  => /\ result[1].stopLoss = P(96)
                     /\ result[1].takeProfit = P(112)

C15_Witness ==
    /\ driver = "riskManager" /\ pc = "tickAware"
    /\ call.tradingSignal.signal = "LONG"
    /\ LastPrice = P(100) /\ CallATR = [num |-> P(2), den |-> 1]
    /\ result # Null
    /\ result[1].stopLoss = P(96) /\ result[1].takeProfit = P(112)

\* C16: for a non-HOLD signal with a positive stop distance, positive balance
\* and positive last close, the leverage-based calculateTradeParameters
\* returns the size balance * leverage * (1 - marginBuffer) / lastPrice
\* rounded to 4 decimals; balance 10000 at last price 50000 (leverage 10,
\* margin buffer 0.01) gives 1.98, at last price 100 gives 990.
C16_LeveragedSize ==
    ( /\ driver = "riskManager" /\ pc = "calculateTradeParameters"
      /\ call.tradingSignal.signal # "HOLD"
      /\ call.tradingSignal.stop_loss_distance_in_usd > 0
      /\ call.balance > 0 /\ LastPrice > 0 ) =>
        /\ result # Null
        /\ call.balance <= BalanceUnits(1) =>
              LET exact == call.balance * leverage * (100 - marginBufferPct)
                  scaled == result[1].size * 100 * LastPrice
              IN  /\ 2 * (scaled - exact) <= 100 * LastPrice
                  /\ 2 * (exact - scaled) <= 100 * LastPrice
        /\ call.balance = BalanceUnits(10000) =>
              /\ LastPrice = P(50000) =>
                    100 * result[1].size = 198 * SizeDecimals
              /\ LastPrice = P(100) => result[1].size = 990 * SizeDecimals

C16_Witness ==
    /\ driver = "riskManager" /\ pc = "calculateTradeParameters"
    /\ call.balance = BalanceUnits(10000) /\ LastPrice = P(50000)
    /\ result # Null
    /\ 100 * result[1].size = 198 * SizeDecimals

\* C16 as stated, without a condition on the stop distance: a non-HOLD
\* signal with positive balance and positive last close always gets a size.
C16_SizeForAnyDistance ==
    ( /\ driver = "riskManager" /\ pc = "calculateTradeParameters"
      /\ call.tradingSignal.signal # "HOLD"
      /\ call.balance > 0 /\ LastPrice > 0 ) =>
        /\ result # Null
        /\ call.balance = BalanceUnits(10000) =>
              /\ LastPrice = P(50000) =>
                    100 * result[1].size = 198 * SizeDecimals

\* C17: the leverage-based calculateTradeParameters returns null when the
\* balance or the last close is not positive, and every result it does
\* return has a size greater than 0 after the rounding to 4 decimals.
C17_FailsClosed ==
    (driver = "riskManager" /\ pc = "calculateTradeParameters") =>
        /\ (call.balance <= 0 \/ LastPrice <= 0) => result = Null
        /\ result # Null => result[1].size > 0

\* C18: when the ATR of the window is 0, the tick-aware
\* calculateTradeParameters returns null for every opinion, and the entry
\* decision of the replay loop records no trade.
C18_ZeroATRNoTrade ==
    ( /\ driver = "riskManager" /\ pc \in {"tickAware", "entry"}
      /\ CallATR.num = 0 ) =>
        /\ result = Null
        /\ trades = << >>

C18_Witness ==
    /\ driver = "riskManager" /\ pc = "entry"
    /\ Qualifies(call.tradingSignal)
    /\ call.balance = BalanceUnits(INITIAL_BALANCE)
    /\ LastPrice = P(100)
    /\ Len(call.ohlc) >= ATR_PERIOD
    /\ CallATR.num = 0
    /\ trades = << >>

\* C19: _calculateATR(bars, period) with fewer bars than the period does not
\* throw; it returns high - low of the last bar, and 0 for an empty window.
C19_ShortWindowATR ==
    ( /\ driver = "riskManager" /\ pc = "_calculateATR"
      /\ Len(call.ohlc) < call.period ) =>
        /\ result # Thrown
        /\ result.returned.den = 1
        /\ result.returned.num =
              IF Len(call.ohlc) = 0 THEN 0
              ELSE call.ohlc[Len(call.ohlc)].high
                   - call.ohlc[Len(call.ohlc)].low

C21_ShortSeriesAborts ==
    ( /\ driver \in {"run", "runBacktestBudget"}
      /\ Len(allCandles) < WARMUP_PERIOD ) =>
        /\ pc \in {"start", "error"}
        /\ trades = << >>
        /\ invocations = 0
        /\ apiCallCount = 0
        /\ balance = BalanceUnits(INITIAL_BALANCE)

C21_Witness ==
    /\ driver \in {"run", "runBacktestBudget"}
    /\ Len(allCandles) < WARMUP_PERIOD
    /\ cfg.MAX_API_CALLS > 0
    /\ pc = "error"

\* C23: after a step that invoked the oracle, a rate-limited loop is
\* suspended for exactly MIN_SECONDS_BETWEEN_CALLS minus the time elapsed
\* since the recorded start of the step (oracle latency included) when that
\* is positive, and is not suspended at all when the elapsed time has
\* reached MIN_SECONDS_BETWEEN_CALLS; the suspension lasts the computed time.
C23_DelayIsRemainder ==
    /\ []( (HasRateLimit(driver) /\ pc = "wait") =>
              /\ delayNeeded > 0
              /\ delayNeeded = cfg.MIN_SECONDS_BETWEEN_CALLS - elapsed )
    /\ [][ (HasRateLimit(driver) /\ pc = "oracle") =>
              \/ /\ pc' = "wait"
                 /\ elapsed' = elapsed + sinceCall'[1]
                 /\ elapsed' < cfg.MIN_SECONDS_BETWEEN_CALLS
              \/ /\ pc' = "loop"
                 /\ delayNeeded' = 0
                 /\ elapsed + sinceCall'[1] >= cfg.MIN_SECONDS_BETWEEN_CALLS
         ]_vars
    /\ [][ (HasRateLimit(driver) /\ pc = "wait") =>
              /\ pc' = "loop"
              /\ sinceCall' = Advance(sinceCall, delayNeeded) ]_vars

C23_Witness ==
    /\ driver = "run" /\ pc = "wait"
    /\ elapsed > 0
    /\ sinceCall # Null /\ sinceCall[1] > 0
    /\ delayNeeded = cfg.MIN_SECONDS_BETWEEN_CALLS - elapsed

\* C24: no step removes a trade or changes a closed trade, and the only
\* change a step makes to an open trade is closing it (status, exitPrice,
\* exitTime and pnl are written once, together).
C24_ClosedTradesFrozen ==
    [][ /\ Len(trades') >= Len(trades)
        /\ \A k \in 1 .. Len(trades) :
              \/ trades'[k] = trades[k]
              \/ /\ trades[k].status = "open"
                 /\ trades'[k].status = "closed"
                 /\ trades'[k] = [trades[k] EXCEPT
                                    !.status = "closed",
                                    !.exitPrice = trades'[k].exitPrice,
                                    !.exitTime = trades'[k].exitTime,
                                    !.pnl = trades'[k].pnl] ]_vars

C24_Witness ==
    /\ driver \in Drivers /\ pc = "done"
    /\ Len(trades) >= 2
    /\ trades[1].status = "closed"
    /\ trades[1].exitTime[1] < Len(allCandles)
    /\ trades[2].status = "closed"

\* C26: a loop pass that starts with a position open performs the exit check
\* only: it goes on to the next bar (or ends the loop) without invoking the
\* oracle, even when the exit check has closed the position.
C26_ExitCheckOnly ==
    [][ (AtBar /\ getOpenTrade(trades) # Null) =>
            /\ pc' \in {"loop", "summary"}
            /\ invocations' = invocations
            /\ apiCallCount' = apiCallCount ]_vars


\* C25: in the MA-crossover revision of runBacktest, a bar that reaches both
\* levels of the open trade (LONG: low <= stopLoss and high >= takeProfit;
\* SHORT: high >= stopLoss and low <= takeProfit) closes it at its stopLoss.
C25_MAStopLossPriority ==
    [][ LET open == getOpenTrade(trades)
        IN  ( /\ driver = "runBacktestMA" /\ pc = "loop"
              /\ i < Len(allCandles) /\ open # Null
              /\ BothTrigger(Candle(i), trades[open[1]]) )
            => ( /\ trades'[open[1]].status = "closed"
                 /\ trades'[open[1]].exitPrice
                        = Some(trades[open[1]].stopLoss) ) ]_vars

\* C28: in the MA-crossover revision of runBacktest every recorded trade has
\* its entry price, the close of the bar it was opened on, strictly between
\* its levels, which come from the window that ends one bar earlier:
\* stopLoss < entryPrice < takeProfit for LONG, takeProfit < entryPrice <
\* stopLoss for SHORT.
C28_MAEntryBetweenLevels ==
    driver = "runBacktestMA" =>
        \A k \in 1 .. Len(trades) :
            /\ trades[k].signal = "LONG" =>
                  /\ trades[k].stopLoss < trades[k].entryPrice
                  /\ trades[k].entryPrice < trades[k].takeProfit
            /\ trades[k].signal = "SHORT" =>
                  /\ trades[k].takeProfit < trades[k].entryPrice
                  /\ trades[k].entryPrice < trades[k].stopLoss


\* C27: generateSignal of the Hybrid Quantitative prompt revision never
\* throws or rejects; after a failed model call, a missing JSON object, a
\* parse error or a failed validation it returns signal HOLD, confidence 0.
C27_HybridNeverThrows ==
    (driver = "generateSignalHybrid" /\ pc = "returned") =>
        /\ result # Thrown
        /\ "returned" \in DOMAIN result
        /\ (call.response # Null /\ FailedResponse(call.response[1])) =>
              /\ result.returned.signal = "HOLD"
              /\ result.returned.confidence = 0


\* C29: the risk-percentage (fixed-fractional) calculateTradeParameters
\* returns null whenever the margin the computed size requires at the last
\* price, size * entryPrice / leverage, exceeds the equity.
FixedFractionalSize ==
    ((call.balance * riskPercentage
          * _calculateATR(call.ohlc, ATR_PERIOD).returned.den)
        \div (100 * SizeDecimals))
      \div (_calculateATR(call.ohlc, ATR_PERIOD).returned.num
              * stopLossMultiplier)

C29_RejectsInsufficientMargin ==
    ( /\ driver = "riskManager" /\ pc = "fixedFractional"
      /\ call.balance > 0
      /\ ~ZeroATR(_calculateATR(call.ohlc, ATR_PERIOD).returned)
      /\ FixedFractionalSize * LastPrice
            > (call.balance * leverage) \div SizeDecimals )
        => result = Null


\* C30: the summary printed at the end of runBacktest counts closed trades
\* only: totalTrades is the number of closed trades, winningTrades the closed
\* trades with pnl > 0, losingTrades their difference and winRate
\* winningTrades / totalTrades * 100 (0 without trades); a position still
\* open at the end is neither a trade nor a loss.
ClosedWinners(ts) == { k \in ClosedIndices(ts) : ts[k].pnl > 0 }

C30_SummaryOverClosedTrades ==
    (driver \in BacktestDrivers /\ pc = "done") =>
        LET closed == Cardinality(ClosedIndices(trades))
            won == Cardinality(ClosedWinners(trades))
        IN  /\ result[1].totalTrades = closed
            /\ result[1].winningTrades = won
            /\ result[1].losingTrades = closed - won
            /\ result[1].winRate.num * closed
                  = won * 100 * result[1].winRate.den
            /\ closed = 0 => result[1].winRate.num = 0


\* C22: two runs of the replay loop on the same bars, the same configuration
\* and the same stubbed oracle end the same way with the same trade log
\* (trades, order, entry and exit prices and times, pnl), the same number of
\* oracle calls and the same final balance, whatever the latencies of either
\* run were.
C22_RunsAgree ==
    ( /\ driver \in DetDrivers /\ pc \in {"done", "error"}
      /\ call.first # Null ) =>
        /\ pc = call.first[1].pc
        /\ trades = call.first[1].trades
        /\ balance = call.first[1].balance
        /\ invocations = call.first[1].invocations
        /\ apiCallCount = call.first[1].apiCallCount

\* A second run of BacktestRunner.run that made two oracle calls and closed a
\* trade has ended, with timing that differs from the first run's.
C22_Witness ==
    /\ driver = "run" /\ pc = "done" /\ call.first # Null
    /\ invocations >= 2
    /\ Len(trades) >= 1 /\ trades[1].status = "closed"
    /\ sinceCall # call.first[1].sinceCall


\* C31: in the MA-crossover revision of runBacktest the oracle is invoked
\* only in a pass whose filter found a bullish or a bearish crossover; a pass
\* whose filter found none goes on to the next bar with no oracle call, the
\* call count unchanged, no pause and no end of the loop.
C31_FilterGatesOracle ==
    /\ []( (driver = "runBacktestMA" /\ pc \in {"wait", "oracle"})
             => call \in {Some("bullish"), Some("bearish")} )
    /\ [][ (driver = "runBacktestMA" /\ invocations' > invocations)
             => call \in {Some("bullish"), Some("bearish")} ]_vars
    /\ [][ ( /\ driver = "runBacktestMA" /\ pc = "loop"
             /\ i < Len(allCandles) /\ call' = Some("none") )
           => ( /\ pc' = "loop" /\ i' = i + 1
                /\ invocations' = invocations
                /\ apiCallCount' = apiCallCount
                /\ delayNeeded' = 0
                /\ trades' = trades ) ]_vars

\* With the budget already used up, a pass without crossover has gone on to
\* the next bar.
C31_Witness ==
    /\ driver = "runBacktestMA" /\ pc = "loop"
    /\ call = Some("none")
    /\ cfg.MAX_API_CALLS >= 1 /\ apiCallCount = cfg.MAX_API_CALLS


\* C32: for every pass i from WARMUP_PERIOD on and every DATA_WINDOW_SIZE and
\* WARMUP_PERIOD (DATA_WINDOW_SIZE > i included), the window handed to the
\* oracle holds the bars with indices max(0, i - DATA_WINDOW_SIZE) .. i - 1
\* in ascending order.
C32_WindowEndsBeforeBar ==
    (driver = "window" /\ pc \in {"run", "runBacktestMA"}) =>
        LET first == IF i - cfg.DATA_WINDOW_SIZE < 0 THEN 0
                     ELSE i - cfg.DATA_WINDOW_SIZE
        IN  result = SubSeq(allCandles, first + 1, i)


\* C33: on a series of N bars the k-th call of fetchAllData (k = 0, 1, ...)
\* returns, for k < N, the bars max(0, k - (DATA_WINDOW_SIZE - 1)) .. k in
\* order, at most DATA_WINDOW_SIZE of them and the last one bar k, and moves
\* the cursor on by one; every call with k >= N returns null and leaves the
\* cursor where it is.
C33_FetchAllDataWindows ==
    /\ []( (driver = "fetchAllData" /\ i > 0) =>
             LET k == i - 1
                 N == Len(allCandles)
                 first == IF k - (DATA_WINDOW_SIZE - 1) < 0 THEN 0
                          ELSE k - (DATA_WINDOW_SIZE - 1)
             IN  IF k < N
                 THEN /\ result.returned # Null
                      /\ result.returned[1].ohlc
                            = SubSeq(allCandles, first + 1, k + 1)
                      /\ Len(result.returned[1].ohlc) <= DATA_WINDOW_SIZE
                      /\ result.returned[1].ohlc[
                             Len(result.returned[1].ohlc)] = allCandles[k + 1]
                      /\ currentIndex = k + 1
                 ELSE /\ result = Returned(Null)
                      /\ currentIndex = N )
    /\ [][ driver = "fetchAllData" =>
             currentIndex' = IF i < Len(allCandles) THEN currentIndex + 1
                             ELSE currentIndex ]_vars

\* The last bar of a series longer than the window has been served, in a
\* window that no longer starts at the first bar.
C33_Witness ==
    /\ driver = "fetchAllData"
    /\ i = Len(allCandles) /\ i > DATA_WINDOW_SIZE
    /\ result.returned # Null
    /\ Len(result.returned[1].ohlc) = DATA_WINDOW_SIZE
    /\ result.returned[1].ohlc[1].timestamp > 1


\* The candle reaches at least one level of trade t.
Reaches(candle, t) ==
    \/ t.signal = "LONG" /\ (candle.low <= t.stopLoss
                             \/ candle.high >= t.takeProfit)
    \/ t.signal = "SHORT" /\ (candle.high >= t.stopLoss
                              \/ candle.low <= t.takeProfit)

\* C34: in BacktestRunner.run, a pass that finds the budget used up and a
\* position open does not end the loop: it makes the exit check on its bar
\* and no oracle call; the position stays open unchanged and the loop goes on
\* to the next bar when the bar reaches neither level, and the position is
\* closed and the loop ends in this pass, the first one without an open
\* position, when it does.
C34_ExitChecksAfterBudget ==
    [][ ( /\ driver = "run" /\ pc = "loop" /\ i < Len(allCandles)
          /\ apiCallCount >= cfg.MAX_API_CALLS
          /\ OpenIndices(trades) # {} )
        => LET k == CHOOSE j \in OpenIndices(trades) : TRUE
           IN  /\ invocations' = invocations
               /\ apiCallCount' = apiCallCount
               /\ Len(trades') = Len(trades)
               /\ IF Reaches(Candle(i), trades[k])
                  THEN /\ trades'[k].status = "closed"
                       /\ trades'[k].exitTime = Some(Candle(i).timestamp)
                       /\ pc' = "summary"
                  ELSE /\ trades' = trades
                       /\ pc' = "loop" /\ i' = i + 1 ]_vars

\* The position opened by the last budgeted call was closed on a later bar
\* and the loop ended there, before the data ran out.
C34_Witness ==
    /\ driver = "run" /\ pc = "done"
    /\ cfg.MAX_API_CALLS >= 1 /\ apiCallCount = cfg.MAX_API_CALLS
    /\ Len(trades) = cfg.MAX_API_CALLS
    /\ trades[Len(trades)].status = "closed"
    /\ i < Len(allCandles)


C36_NoEntryWithoutEquity ==
    /\ [][ ( /\ driver = "runBacktest" /\ pc = "oracle"
             /\ (balance <= 0 \/ Candle(currentIndex - 1).close <= 0) )
           => (trades' = trades /\ pc' = "loop"
               /\ currentIndex' = currentIndex) ]_vars
    /\ [][ (driver = "runBacktest" /\ balance <= 0)
           => (trades' = trades /\ balance' = balance
               /\ pc' # "error") ]_vars

\* A run that lost more than its balance on its first trade has gone through
\* the rest of the bars, the oracle being asked again, without a new trade.
C36_Witness ==
    /\ driver = "runBacktest" /\ pc = "done"
    /\ balance < 0
    /\ Len(trades) = 1
    /\ invocations >= 3


\* C37 (as claimed): in one live trading cycle, when the fetched account data
\* reports at least one open position, the strategy engine is not invoked
\* and placeOrder is not called.
C37_SkipsOnAnyPosition ==
    ( /\ driver \in BotDrivers /\ call # Null
      /\ call[1].positions # Null
      /\ Len(call[1].positions[1]) > 0 )
        => (invocations = 0 /\ trades = << >> /\ pc = "finished")

\* C37 (amended): in one live trading cycle, when the fetched account data
\* reports at least one open position (in the revision with the confidence
\* threshold: at least one open position of the traded pair), the cycle ends
\* without invoking the strategy engine and without calling placeOrder; an
\* order is sent only in a cycle that observed no such position.
C37_SkipsOnObservedPosition ==
    /\ ( /\ driver \in BotDrivers /\ call # Null
         /\ call[1].positions # Null
         /\ \E k \in 1 .. Len(call[1].positions[1]) :
               driver = "mainConfidence"
                   => call[1].positions[1][k] = FUTURES_TRADING_PAIR )
          => (invocations = 0 /\ trades = << >> /\ pc = "finished")
    /\ (driver \in BotDrivers /\ trades # << >>)
          => /\ call # Null
             /\ \/ call[1].positions = Null
                \/ \A k \in 1 .. Len(call[1].positions[1]) :
                      /\ driver = "mainConfidence"
                      /\ call[1].positions[1][k] # FUTURES_TRADING_PAIR

\* The cycle of the later revision has ended without a call on an account
\* that holds a position of the traded pair next to another one.
C37_Witness ==
    /\ driver = "mainConfidence" /\ pc = "finished"
    /\ call = Some([positions |-> Some(<< "PF_ETHUSD", FUTURES_TRADING_PAIR >>)])
    /\ invocations = 0 /\ trades = << >>

=============================================================================
